---- MODULE Spec2Model ----
(***************************************************************************)
(* Synchronous GraphQL execution (graphql-sync): a model of execute,       *)
(* buildExecutionContext, executeOperation, collectFields, resolveField    *)
(* and completeValue of src/src/graphql.js.                                *)
(*                                                                         *)
(* The run of one execute() call is a state machine: the context is built, *)
(* the root type is resolved and the root selection set collected, the     *)
(* root fields are resolved one after the other, and the response is       *)
(* returned.  Everything below a root field (value completion, nested      *)
(* selection sets, lists) is synchronous recursion in the code and is      *)
(* recursion here, threading the mutable state (error list, resolver call  *)
(* log, the resolvers' own store) through every call.                      *)
(***************************************************************************)
EXTENDS Integers, Sequences, FiniteSets, TLC

\* Bounds of the explored inputs.
MaxSel == 2       \* selections in a generated root selection set
MaxItems == 2     \* items of a list a resolver returns
MaxFaults == 2    \* misbehaving positions of the root value
MaxDefs == 2      \* definitions of a generated document

(***************************************************************************)
(* JavaScript values.  Every value is a record of one shape: t is the      *)
(* kind, n a number, s a string, v a sequence (list items, object          *)
(* properties as <<key, value>> entries in insertion order, a response     *)
(* path).                                                                  *)
(***************************************************************************)
Val(t, n, s, v) == [t |-> t, n |-> n, s |-> s, v |-> v]
Undefined == Val("undefined", 0, "", <<>>)
Null == Val("null", 0, "", <<>>)
NaN == Val("NaN", 0, "", <<>>)
Num(n) == Val("number", n, "", <<>>)
Str(s) == Val("string", 0, s, <<>>)
Bool(b) == Val("boolean", IF b THEN 1 ELSE 0, "", <<>>)
List(items) == Val("list", 0, "", items)
\* An object: s is the class the type predicates look at, v its properties.
Object(cls, props) == Val("object", 0, cls, props)
\* A function-valued property: calling it returns or throws `outcome`.
Function(how, outcome) == Val("function", 0, how, <<outcome>>)
\* An Error instance: n = 1 when it carries a path (a located GraphQLError).
Error(message) == Val("error", 0, message, <<>>)

Prop(k, v) == [k |-> k, v |-> v]

\* obj[key]: the value of the last entry with that key, else undefined.
RECURSIVE Get(_, _)
Get(props, key) ==
  IF props = <<>> THEN Undefined
  ELSE IF props[Len(props)].k = key THEN props[Len(props)].v
       ELSE Get(SubSeq(props, 1, Len(props) - 1), key)

HasKey(props, key) == \E i \in 1..Len(props) : props[i].k = key

\* obj[key] = value: replaces the entry in place, or appends a new one.
Put(props, key, value) ==
  IF HasKey(props, key)
  THEN [i \in 1..Len(props) |->
          IF props[i].k = key THEN Prop(key, value) ELSE props[i]]
  ELSE Append(props, Prop(key, value))

\* Object.keys answering the keys last first.
KeysLastFirst(props) == [i \in 1..Len(props) |-> props[Len(props) + 1 - i].k]

Keys(props) == [i \in 1..Len(props) |-> props[i].k]

\* typeof x
typeofJS(x) ==
  CASE x.t \in {"null", "object", "list", "error"} -> "object"
    [] x.t \in {"number", "NaN"} -> "number"
    [] OTHER -> x.t

isNullish(x) == x.t \in {"null", "undefined", "NaN"}

Reverse(s) == [i \in 1..Len(s) |-> s[Len(s) + 1 - i]]

(***************************************************************************)
(* Response paths.  A path is a linked list {prev, key}: here the sequence *)
(* of its keys, newest first; the empty sequence is `undefined`.           *)
(***************************************************************************)
NameKey(name) == [s |-> name, n |-> -1]
IndexKey(i) == [s |-> "", n |-> i]

addPath(prev, key) == <<key>> \o prev

RECURSIVE responsePathFlatten(_)
responsePathFlatten(curr) ==
  IF curr = <<>> THEN <<>>
  ELSE <<Head(curr)>> \o responsePathFlatten(Tail(curr))

\* responsePathAsArray without its reverse(): the keys newest first.
responsePathAsArrayNewestFirst(path) == responsePathFlatten(path)

responsePathAsArray(path) == Reverse(responsePathFlatten(path))

\* graphql/error locatedError: an error that already has a path is kept.
locatedError(error, fieldNodes, path) ==
  IF error.n = 1 THEN error ELSE Val("error", 1, error.s, path)

(***************************************************************************)
(* The schema.  A type reference is a sequence: <<"NonNull">> \o T,        *)
(* <<"List">> \o T, or <<name>>; ofType is the tail.                       *)
(***************************************************************************)
NoType == ""

NonNull(T) == <<"NonNull">> \o T
ListOf(T) == <<"List">> \o T
Named(name) == <<name>>

isNonNull(T) == Head(T) = "NonNull"
isList(T) == Head(T) = "List"
ofType(T) == Tail(T)

ScalarTypes == {"Int", "String", "Odd"}
ObjectTypes == {"Query", "Mutation", "Subscription", "Obj", "Other", "Plain", "__Schema"}
InterfaceTypes == {"Node"}
UnionTypes == {"Pet"}

isLeafType(T) == Head(T) \in ScalarTypes
isAbstractType(T) == Head(T) \in InterfaceTypes \cup UnionTypes
isObjectType(T) == Head(T) \in ObjectTypes

\* schema.getType(name): the named type, or undefined (NoType).
getType(name) ==
  IF name \in ScalarTypes \cup ObjectTypes \cup InterfaceTypes \cup UnionTypes
  THEN name ELSE NoType

\* schema.getPossibleTypes(abstractType), in declaration order.
getPossibleTypes(abstractName) ==
  CASE abstractName = "Node" -> <<"Obj">>
    [] abstractName = "Pet" -> <<"Other", "Obj">>
    [] OTHER -> <<>>

isPossibleType(abstractName, typeName) ==
  \E i \in 1..Len(getPossibleTypes(abstractName)) :
    getPossibleTypes(abstractName)[i] = typeName

\* Object types that declare isTypeOf, and the predicate they declare; Plain
\* and the root types declare none.
HasIsTypeOf(typeName) == typeName \in {"Obj", "Other"}
isTypeOf(typeName, result) == result.t = "object" /\ result.s = typeName

\* Abstract types that declare resolveType: Node names the runtime type by
\* the class of the value; Pet leaves it to the default strategy.
HasResolveType(abstractName) == abstractName = "Node"
resolveType(abstractName, result) ==
  IF result.t = "object" THEN Str(result.s) ELSE Undefined

\* A leaf type's serialize: Int answers null for what is not a number,
\* String converts; Odd, a scalar of the schema's own, answers undefined for
\* a string and NaN for what is neither number nor string.
serialize(typeName, result) ==
  CASE typeName = "Int" -> IF result.t = "number" THEN result ELSE Null
    [] typeName = "String" ->
         IF result.t = "string" THEN result ELSE Str("[" \o result.t \o "]")
    [] typeName = "Odd" ->
         IF result.t = "number" THEN result
         ELSE IF result.t = "string" THEN Undefined ELSE NaN
    [] OTHER -> Undefined

\* Field definitions: the declared type and the declared resolver ("" when
\* the field declares none and the context's field resolver is used).
NoResolve == ""
FieldDef(T, resolve) == [defined |-> TRUE, type |-> T, resolve |-> resolve]
NoFieldDef == [defined |-> FALSE, type |-> <<>>, resolve |-> NoResolve]

ObjFields ==
  << Prop("a", FieldDef(Named("Int"), NoResolve)),
     Prop("b", FieldDef(NonNull(Named("Int")), NoResolve)) >>

getFields(typeName) ==
  CASE typeName \in {"Query", "Subscription"} ->
         << Prop("hello", FieldDef(Named("Int"), NoResolve)),
            Prop("must", FieldDef(NonNull(Named("Int")), NoResolve)),
            Prop("obj", FieldDef(Named("Obj"), NoResolve)),
            Prop("req", FieldDef(NonNull(Named("Obj")), NoResolve)),
            Prop("list", FieldDef(ListOf(Named("Int")), NoResolve)),
            Prop("strict", FieldDef(ListOf(NonNull(Named("Int"))), NoResolve)),
            Prop("node", FieldDef(Named("Node"), NoResolve)),
            Prop("pet", FieldDef(Named("Pet"), NoResolve)),
            Prop("odd", FieldDef(Named("Odd"), NoResolve)),
            Prop("plain", FieldDef(Named("Plain"), NoResolve)) >>
    [] typeName = "Mutation" ->
         << Prop("incr", FieldDef(Named("Int"), "incr")),
            Prop("read", FieldDef(Named("Int"), "read")),
            Prop("fail", FieldDef(Named("Int"), "fail")),
            Prop("crash", FieldDef(NonNull(Named("Int")), "fail")),
            Prop("self", FieldDef(Named("Mutation"), "self")) >>
    [] typeName \in {"Obj", "Other", "Plain"} -> ObjFields
    [] OTHER -> <<>>

\* graphql/type/introspection: the meta-field definitions.
SchemaMetaFieldDef == FieldDef(NonNull(Named("__Schema")), "__schema")
TypeMetaFieldDef == FieldDef(Named("__Schema"), "__type")
TypeNameMetaFieldDef == FieldDef(NonNull(Named("String")), "__typename")

\* A schema: its root types (NoType when not configured).
Schema(m, s) == [queryType |-> "Query", mutationType |-> m, subscriptionType |-> s]

getFieldDef(schema, parentType, fieldName) ==
  IF fieldName = "__schema" /\ schema.queryType = parentType
  THEN SchemaMetaFieldDef
  ELSE IF fieldName = "__type" /\ schema.queryType = parentType
  THEN TypeMetaFieldDef
  ELSE IF fieldName = "__typename"
  THEN TypeNameMetaFieldDef
  ELSE IF HasKey(getFields(parentType), fieldName)
       THEN Get(getFields(parentType), fieldName)
       ELSE NoFieldDef

(***************************************************************************)
(* The document AST.                                                       *)
(***************************************************************************)
Directive(name, ifArg) == [name |-> name, ifArg |-> ifArg]

\* arguments: "ok" when getArgumentValues coerces them, "bad" when it
\* raises.  selectionSet: the selections; hasSelectionSet tells a field
\* without one from a field with an empty one.
Selection(kind, alias, name, arguments, directives, typeCondition, hasSel, sels) ==
  [kind |-> kind, alias |-> alias, name |-> name, arguments |-> arguments,
   directives |-> directives, typeCondition |-> typeCondition,
   hasSelectionSet |-> hasSel, selectionSet |-> sels]

Field(name) == Selection("Field", "", name, "ok", <<>>, "", FALSE, <<>>)
FieldWith(name, sels) == Selection("Field", "", name, "ok", <<>>, "", TRUE, sels)
Aliased(alias, node) == [node EXCEPT !.alias = alias]
WithDirectives(node, directives) == [node EXCEPT !.directives = directives]
WithBadArguments(node) == [node EXCEPT !.arguments = "bad"]
InlineFragment(typeCondition, sels) ==
  Selection("InlineFragment", "", "", "ok", <<>>, typeCondition, TRUE, sels)
FragmentSpread(name) ==
  Selection("FragmentSpread", "", name, "ok", <<>>, "", FALSE, <<>>)

\* A top-level definition.  variableDefinitions: the names of the variables
\* the operation declares, all of non-null type.
Definition(kind, operation, name, variableDefinitions, typeCondition, sels) ==
  [kind |-> kind, operation |-> operation, name |-> name,
   variableDefinitions |-> variableDefinitions,
   typeCondition |-> typeCondition, selectionSet |-> sels]

OperationDefinition(operation, name, sels) ==
  Definition("OperationDefinition", operation, name, <<>>, "", sels)
FragmentDefinition(name, typeCondition, sels) ==
  Definition("FragmentDefinition", "", name, <<>>, typeCondition, sels)
NoOperation == Definition("", "", "", <<>>, "", <<>>)

\* The outcome of a call: the value returned, or the value thrown.
Returned(v) == [thrown |-> FALSE, val |-> v]
Thrown(e) == [thrown |-> TRUE, val |-> e]

\* graphql/execution/values getVariableValues: a declared variable with no
\* value given is a coercion error.
getVariableValues(schema, variableDefinitions, inputs) ==
  IF \E i \in 1..Len(variableDefinitions) :
       ~HasKey(inputs.v, variableDefinitions[i])
  THEN Thrown(Error("Variable of required type was not provided."))
  ELSE Returned(Object("Object",
         [i \in 1..Len(variableDefinitions) |->
            Prop(variableDefinitions[i], Get(inputs.v, variableDefinitions[i]))]))

\* graphql/execution/values getArgumentValues for a field node.
getArgumentValues(fieldDef, node, variableValues) ==
  IF node.arguments = "bad"
  THEN Thrown(Error("Argument has invalid value."))
  ELSE Returned(Object("Object", <<>>))

(***************************************************************************)
(* Building the execution context.                                         *)
(***************************************************************************)
defaultFieldResolverName == "defaultFieldResolver"

\* The forEach over document.definitions without the check for a second
\* operation: the last operation is the one kept.
RECURSIVE buildDefinitionsLastKept(_, _, _, _)
buildDefinitionsLastKept(definitions, i, operationName, acc) ==
  IF i > Len(definitions) THEN Returned(acc)
  ELSE LET definition == definitions[i] IN
    CASE definition.kind = "OperationDefinition" ->
           IF operationName = ""
              \/ (definition.name # "" /\ definition.name = operationName)
           THEN buildDefinitionsLastKept(definitions, i + 1, operationName,
                  [acc EXCEPT !.hasOperation = TRUE, !.operation = definition])
           ELSE buildDefinitionsLastKept(definitions, i + 1, operationName, acc)
      [] definition.kind = "FragmentDefinition" ->
           buildDefinitionsLastKept(definitions, i + 1, operationName,
             [acc EXCEPT !.fragments = Put(acc.fragments, definition.name, definition)])
      [] OTHER ->
           Thrown(Error("GraphQL cannot execute a request containing a "
                        \o definition.kind \o "."))

\* The forEach over document.definitions: acc holds `operation` and
\* `fragments`; a throw ends the loop.
RECURSIVE buildDefinitions(_, _, _, _)
buildDefinitions(definitions, i, operationName, acc) ==
  IF i > Len(definitions) THEN Returned(acc)
  ELSE LET definition == definitions[i] IN
    CASE definition.kind = "OperationDefinition" ->
           IF operationName = "" /\ acc.hasOperation
           THEN Thrown(Error("Must provide operation name if query contains multiple operations."))
           ELSE IF operationName = ""
                   \/ (definition.name # "" /\ definition.name = operationName)
                THEN buildDefinitions(definitions, i + 1, operationName,
                       [acc EXCEPT !.hasOperation = TRUE, !.operation = definition])
                ELSE buildDefinitions(definitions, i + 1, operationName, acc)
      [] definition.kind = "FragmentDefinition" ->
           buildDefinitions(definitions, i + 1, operationName,
             [acc EXCEPT !.fragments = Put(acc.fragments, definition.name, definition)])
      [] OTHER ->
           Thrown(Error("GraphQL cannot execute a request containing a "
                        \o definition.kind \o "."))

buildExecutionContext(schema, document, rootValue, contextValue, rawVariableValues, operationName, fieldResolver) ==
  LET errors == <<>>
      built == buildDefinitions(document, 1, operationName,
                 [hasOperation |-> FALSE, operation |-> NoOperation, fragments |-> <<>>])
  IN
  IF built.thrown THEN built
  ELSE IF ~built.val.hasOperation
  THEN IF operationName # ""
       THEN Thrown(Error("Unknown operation named \"" \o operationName \o "\"."))
       ELSE Thrown(Error("Must provide an operation."))
  ELSE LET variableValues ==
             getVariableValues(schema, built.val.operation.variableDefinitions,
               IF rawVariableValues.t = "object" THEN rawVariableValues
               ELSE Object("Object", <<>>))
       IN
       IF variableValues.thrown THEN variableValues
       ELSE Returned([schema |-> schema,
                      fragments |-> built.val.fragments,
                      rootValue |-> rootValue,
                      contextValue |-> contextValue,
                      operation |-> built.val.operation,
                      variableValues |-> variableValues.val,
                      fieldResolver |-> IF fieldResolver # "" THEN fieldResolver
                                        ELSE defaultFieldResolverName,
                      errors |-> errors])

\* Extracts the root type of the operation from the schema.
getOperationRootType(schema, operation) ==
  CASE operation.operation = "query" -> Returned(schema.queryType)
    [] operation.operation = "mutation" ->
         IF schema.mutationType = NoType
         THEN Thrown(Error("Schema is not configured for mutations"))
         ELSE Returned(schema.mutationType)
    [] operation.operation = "subscription" ->
         IF schema.subscriptionType = NoType
         THEN Thrown(Error("Schema is not configured for subscriptions"))
         ELSE Returned(schema.subscriptionType)
    [] OTHER ->
         Thrown(Error("Can only execute queries, mutations and subscriptions"))

(***************************************************************************)
(* Collecting the fields of a selection set.                               *)
(***************************************************************************)
\* jsutils/find: the first directive of that name; 0 when there is none.
find(directives, name) ==
  IF \E i \in 1..Len(directives) : directives[i].name = name
  THEN CHOOSE i \in 1..Len(directives) :
         /\ directives[i].name = name
         /\ \A j \in 1..(i - 1) : directives[j].name # name
  ELSE 0

\* shouldIncludeNode asking @include first.
shouldIncludeNodeIncludeFirst(exeContext, directives) ==
  LET skipNode == find(directives, "skip")
      includeNode == find(directives, "include")
  IN
  IF includeNode # 0 THEN directives[includeNode].ifArg
  ELSE IF skipNode # 0 /\ directives[skipNode].ifArg = TRUE THEN FALSE
  ELSE TRUE

\* shouldIncludeNode answering by @skip alone when there is one.
shouldIncludeNodeSkipDecides(exeContext, directives) ==
  LET skipNode == find(directives, "skip")
      includeNode == find(directives, "include")
  IN
  IF skipNode # 0 THEN ~directives[skipNode].ifArg
  ELSE IF includeNode # 0 /\ directives[includeNode].ifArg = FALSE THEN FALSE
  ELSE TRUE

shouldIncludeNode(exeContext, directives) ==
  LET skipNode == find(directives, "skip")
      includeNode == find(directives, "include")
  IN
  IF skipNode # 0 /\ directives[skipNode].ifArg = TRUE THEN FALSE
  ELSE IF includeNode # 0 /\ directives[includeNode].ifArg = FALSE THEN FALSE
  ELSE TRUE

doesFragmentConditionMatch(exeContext, fragment, type) ==
  LET typeConditionNode == fragment.typeCondition
      conditionalType == getType(typeConditionNode)
  IN
  IF typeConditionNode = "" THEN TRUE
  ELSE IF conditionalType = type THEN TRUE
  ELSE IF conditionalType # NoType /\ isAbstractType(Named(conditionalType))
       THEN isPossibleType(conditionalType, type)
       ELSE FALSE

getFieldEntryKey(node) == IF node.alias # "" THEN node.alias ELSE node.name

\* The grouping with the key of every added node moved to the end.
addFieldNodeMovingKey(fields, selection) ==
  LET name == getFieldEntryKey(selection)
      others == SelectSeq(fields, LAMBDA entry : entry.k # name)
  IN Append(others, Prop(name, Append(IF HasKey(fields, name) THEN Get(fields, name)
                                      ELSE <<>>, selection)))

\* The grouping after a field node is added to it.
addFieldNode(fields, selection) ==
  LET name == getFieldEntryKey(selection)
      created == IF ~HasKey(fields, name) THEN Put(fields, name, <<>>) ELSE fields
  IN Put(created, name, Append(Get(created, name), selection))

\* collectFields marking the fragment of a spread as visited before it looks
\* at the directives of the spread.
RECURSIVE collectFieldsMarkingFirst(_, _, _, _, _, _)
collectFieldsMarkingFirst(exeContext, runtimeType, selections, i, fields, visitedFragmentNames) ==
  IF i > Len(selections)
  THEN [fields |-> fields, visitedFragmentNames |-> visitedFragmentNames]
  ELSE LET selection == selections[i]
           skip == collectFieldsMarkingFirst(exeContext, runtimeType, selections, i + 1,
                                             fields, visitedFragmentNames)
       IN
    CASE selection.kind = "Field" ->
           IF ~shouldIncludeNode(exeContext, selection.directives) THEN skip
           ELSE collectFieldsMarkingFirst(exeContext, runtimeType, selections, i + 1,
                  addFieldNode(fields, selection), visitedFragmentNames)
      [] selection.kind = "InlineFragment" ->
           IF ~shouldIncludeNode(exeContext, selection.directives)
              \/ ~doesFragmentConditionMatch(exeContext, selection, runtimeType)
           THEN skip
           ELSE LET inner == collectFieldsMarkingFirst(exeContext, runtimeType,
                               selection.selectionSet, 1, fields, visitedFragmentNames)
                IN collectFieldsMarkingFirst(exeContext, runtimeType, selections, i + 1,
                                             inner.fields, inner.visitedFragmentNames)
      [] selection.kind = "FragmentSpread" ->
           LET fragName == selection.name IN
           IF fragName \in visitedFragmentNames THEN skip
           ELSE LET visited == visitedFragmentNames \cup {fragName} IN
                IF ~shouldIncludeNode(exeContext, selection.directives)
                   \/ ~HasKey(exeContext.fragments, fragName)
                   \/ ~doesFragmentConditionMatch(exeContext,
                         Get(exeContext.fragments, fragName), runtimeType)
                THEN collectFieldsMarkingFirst(exeContext, runtimeType, selections, i + 1,
                                               fields, visited)
                ELSE LET inner == collectFieldsMarkingFirst(exeContext, runtimeType,
                                    Get(exeContext.fragments, fragName).selectionSet,
                                    1, fields, visited)
                     IN collectFieldsMarkingFirst(exeContext, runtimeType, selections,
                                                  i + 1, inner.fields,
                                                  inner.visitedFragmentNames)
      [] OTHER -> skip

\* collectFields with a visited set of its own for every fragment it
\* expands: what the expansion marks is forgotten after it.
RECURSIVE collectFieldsForgettingVisited(_, _, _, _, _, _)
collectFieldsForgettingVisited(exeContext, runtimeType, selections, i, fields, visitedFragmentNames) ==
  IF i > Len(selections)
  THEN [fields |-> fields, visitedFragmentNames |-> visitedFragmentNames]
  ELSE LET selection == selections[i]
           skip == collectFieldsForgettingVisited(exeContext, runtimeType, selections,
                                                  i + 1, fields, visitedFragmentNames)
       IN
    CASE selection.kind = "Field" ->
           IF ~shouldIncludeNode(exeContext, selection.directives) THEN skip
           ELSE collectFieldsForgettingVisited(exeContext, runtimeType, selections, i + 1,
                  addFieldNode(fields, selection), visitedFragmentNames)
      [] selection.kind = "InlineFragment" ->
           IF ~shouldIncludeNode(exeContext, selection.directives)
              \/ ~doesFragmentConditionMatch(exeContext, selection, runtimeType)
           THEN skip
           ELSE LET inner == collectFieldsForgettingVisited(exeContext, runtimeType,
                               selection.selectionSet, 1, fields, visitedFragmentNames)
                IN collectFieldsForgettingVisited(exeContext, runtimeType, selections,
                                                  i + 1, inner.fields,
                                                  inner.visitedFragmentNames)
      [] selection.kind = "FragmentSpread" ->
           LET fragName == selection.name IN
           IF fragName \in visitedFragmentNames
              \/ ~shouldIncludeNode(exeContext, selection.directives)
           THEN skip
           ELSE LET visited == visitedFragmentNames \cup {fragName} IN
                IF ~HasKey(exeContext.fragments, fragName)
                   \/ ~doesFragmentConditionMatch(exeContext,
                         Get(exeContext.fragments, fragName), runtimeType)
                THEN collectFieldsForgettingVisited(exeContext, runtimeType, selections,
                                                    i + 1, fields, visited)
                ELSE LET inner == collectFieldsForgettingVisited(exeContext, runtimeType,
                                    Get(exeContext.fragments, fragName).selectionSet,
                                    1, fields, visited)
                     IN collectFieldsForgettingVisited(exeContext, runtimeType,
                                                       selections, i + 1, inner.fields,
                                                       visited)
      [] OTHER -> skip

\* The loop of collectFields from selection i on: the grouping and the
\* visited fragment names are the objects the code mutates in place.
RECURSIVE collectFieldsFrom(_, _, _, _, _, _)
collectFieldsFrom(exeContext, runtimeType, selections, i, fields, visitedFragmentNames) ==
  IF i > Len(selections)
  THEN [fields |-> fields, visitedFragmentNames |-> visitedFragmentNames]
  ELSE LET selection == selections[i]
           skip == collectFieldsFrom(exeContext, runtimeType, selections, i + 1,
                                     fields, visitedFragmentNames)
       IN
    CASE selection.kind = "Field" ->
           IF ~shouldIncludeNode(exeContext, selection.directives) THEN skip
           ELSE collectFieldsFrom(exeContext, runtimeType, selections, i + 1,
                  addFieldNode(fields, selection), visitedFragmentNames)
      [] selection.kind = "InlineFragment" ->
           IF ~shouldIncludeNode(exeContext, selection.directives)
              \/ ~doesFragmentConditionMatch(exeContext, selection, runtimeType)
           THEN skip
           ELSE LET inner == collectFieldsFrom(exeContext, runtimeType,
                               selection.selectionSet, 1, fields, visitedFragmentNames)
                IN collectFieldsFrom(exeContext, runtimeType, selections, i + 1,
                                     inner.fields, inner.visitedFragmentNames)
      [] selection.kind = "FragmentSpread" ->
           LET fragName == selection.name IN
           IF fragName \in visitedFragmentNames
              \/ ~shouldIncludeNode(exeContext, selection.directives)
           THEN skip
           ELSE LET visited == visitedFragmentNames \cup {fragName} IN
                IF ~HasKey(exeContext.fragments, fragName)
                   \/ ~doesFragmentConditionMatch(exeContext,
                         Get(exeContext.fragments, fragName), runtimeType)
                THEN collectFieldsFrom(exeContext, runtimeType, selections, i + 1,
                                       fields, visited)
                ELSE LET inner == collectFieldsFrom(exeContext, runtimeType,
                                    Get(exeContext.fragments, fragName).selectionSet,
                                    1, fields, visited)
                     IN collectFieldsFrom(exeContext, runtimeType, selections, i + 1,
                                          inner.fields, inner.visitedFragmentNames)
      [] OTHER -> skip

\* Answers the grouping and, as the effect on its last argument, the
\* visited fragment names.
collectFields(exeContext, runtimeType, selectionSet, fields, visitedFragmentNames) ==
  collectFieldsFrom(exeContext, runtimeType, selectionSet, 1, fields,
                    visitedFragmentNames)

(***************************************************************************)
(* Resolving fields and completing values.  st is the mutable state of a   *)
(* run: errors (exeContext.errors), store (the counter the mutation        *)
(* resolvers write) and two records of what happened: log (one entry per   *)
(* call of a resolve function: the path, the field and the store it found) *)
(* and failures (how many times value completion raised a new error, as    *)
(* opposed to passing one on).  Every operator answers [st, thrown, val]:  *)
(* the state after the call and the value returned or thrown.              *)
(***************************************************************************)
Ret(st, v) == [st |-> st, thrown |-> FALSE, val |-> v]
Throw(st, e) == [st |-> st, thrown |-> TRUE, val |-> e]
\* throw new Error(...) in value completion: a failure of its own.
Raise(st, e) == Throw([st EXCEPT !.failures = @ + 1], e)

\* try { r } catch (e) { Catch }: r, unless it threw.
Try(r, Catch(_)) == IF r.thrown THEN Catch(r) ELSE r
\* r; Continue: what follows a call that did not throw.
Bind(r, Continue(_)) == IF r.thrown THEN r ELSE Continue(r)

\* String(x), as far as the messages need it.
ToStringJS(x) == IF x.t = "string" THEN x.s ELSE "[" \o x.t \o "]"

TypeObject(name) == Val("type", 0, name, <<>>)

\* buildResolveInfo naming the field after the last of the merged nodes.
buildResolveInfoLastNode(exeContext, fieldDef, fieldNodes, parentType, path) ==
  [fieldName |-> fieldNodes[Len(fieldNodes)].name, returnType |-> fieldDef.type,
   parentType |-> parentType, path |-> path]

buildResolveInfo(exeContext, fieldDef, fieldNodes, parentType, path) ==
  [fieldName |-> fieldNodes[1].name, returnType |-> fieldDef.type,
   parentType |-> parentType, path |-> path]

\* The default resolver: the property of the source named as the field,
\* called when it is a function.  typeof null is "object", so a null
\* source gets as far as the property access, which raises a TypeError.
defaultFieldResolver(source, args, context, info, st) ==
  IF typeofJS(source) = "object" \/ typeofJS(source) = "function"
  THEN IF source.t = "null"
       THEN Throw(st, Error("Cannot read property '" \o info.fieldName \o "' of null"))
       ELSE LET property == IF source.t = "object"
                            THEN Get(source.v, info.fieldName) ELSE Undefined
            IN IF typeofJS(property) = "function"
               THEN IF property.s = "throw" THEN Throw(st, property.v[1])
                    ELSE Ret(st, property.v[1])
               ELSE Ret(st, property)
  ELSE Ret(st, Undefined)

\* resolveFn(source, args, context, info): the resolve functions of the
\* schema.  incr and fail write the store before they answer.
callResolveFn(resolveFn, source, args, context, info, st) ==
  LET called == [st EXCEPT !.log = Append(@,
                   [path |-> responsePathAsArray(info.path),
                    parentType |-> info.parentType,
                    fieldName |-> info.fieldName,
                    store |-> st.store])]
      bumped == [called EXCEPT !.store = @ + 1]
  IN
  CASE resolveFn = defaultFieldResolverName ->
         defaultFieldResolver(source, args, context, info, called)
    [] resolveFn = "incr" -> Ret(bumped, Num(bumped.store))
    [] resolveFn = "read" -> Ret(called, Num(called.store))
    [] resolveFn = "fail" -> Throw(bumped, Error("fail"))
    [] resolveFn = "self" -> Ret(called, Object("Mutation", <<>>))
    [] resolveFn = "__typename" -> Ret(called, Str(info.parentType))
    [] resolveFn = "__schema" -> Ret(called, Object("__Schema", <<>>))
    [] OTHER -> Ret(called, Null)

resolveFieldValueOrError(exeContext, fieldDef, fieldNodes, resolveFn, source, info, st) ==
  LET args == getArgumentValues(fieldDef, fieldNodes[1], exeContext.variableValues) IN
  IF args.thrown THEN Ret(st, args.val)
  ELSE Try(callResolveFn(resolveFn, source, args.val, exeContext.contextValue,
                         info, st),
           LAMBDA r : Ret(r.st, IF r.val.t = "error" THEN r.val
                                ELSE Error(ToStringJS(r.val))))

\* completeLeafValue answering null when serialize does, without an error.
completeLeafValueQuiet(returnType, result, st) ==
  LET serializedResult == serialize(Head(returnType), result) IN
  IF isNullish(serializedResult) THEN Ret(st, Null)
  ELSE Ret(st, serializedResult)

completeLeafValue(returnType, result, st) ==
  LET serializedResult == serialize(Head(returnType), result) IN
  IF isNullish(serializedResult)
  THEN Raise(st, Error("Expected a value of type \"" \o Head(returnType)
                       \o "\" but received: " \o ToStringJS(result)))
  ELSE Ret(st, serializedResult)

\* The default strategy: the first possible type whose isTypeOf accepts.
RECURSIVE defaultResolveTypeFrom(_, _, _)
defaultResolveTypeFrom(possibleTypes, i, value) ==
  IF i > Len(possibleTypes) THEN Undefined
  ELSE IF HasIsTypeOf(possibleTypes[i]) /\ isTypeOf(possibleTypes[i], value)
       THEN TypeObject(possibleTypes[i])
       ELSE defaultResolveTypeFrom(possibleTypes, i + 1, value)

defaultResolveTypeFn(value, context, info, abstractType) ==
  defaultResolveTypeFrom(getPossibleTypes(abstractType), 1, value)

\* ensureValidRuntimeType accepting every object type of the schema.
ensureValidRuntimeTypeAnyObject(runtimeTypeOrName, exeContext, returnType, fieldNodes, info, result, st) ==
  LET runtimeType == IF typeofJS(runtimeTypeOrName) = "string"
                     THEN IF getType(runtimeTypeOrName.s) = NoType THEN Undefined
                          ELSE TypeObject(getType(runtimeTypeOrName.s))
                     ELSE runtimeTypeOrName
  IN
  IF ~(runtimeType.t = "type" /\ runtimeType.s \in ObjectTypes)
  THEN Raise(st, Error("Abstract type " \o Head(returnType)
                       \o " must resolve to an Object type at runtime for field "
                       \o info.parentType \o "." \o info.fieldName))
  ELSE Ret(st, runtimeType)

ensureValidRuntimeType(runtimeTypeOrName, exeContext, returnType, fieldNodes, info, result, st) ==
  LET runtimeType == IF typeofJS(runtimeTypeOrName) = "string"
                     THEN IF getType(runtimeTypeOrName.s) = NoType THEN Undefined
                          ELSE TypeObject(getType(runtimeTypeOrName.s))
                     ELSE runtimeTypeOrName
  IN
  IF ~(runtimeType.t = "type" /\ runtimeType.s \in ObjectTypes)
  THEN Raise(st, Error("Abstract type " \o Head(returnType)
                       \o " must resolve to an Object type at runtime for field "
                       \o info.parentType \o "." \o info.fieldName))
  ELSE IF ~isPossibleType(Head(returnType), runtimeType.s)
  THEN Raise(st, Error("Runtime Object type \"" \o runtimeType.s
                       \o "\" is not a possible type for \"" \o Head(returnType) \o "\"."))
  ELSE Ret(st, runtimeType)

invalidReturnTypeError(returnType, result, fieldNodes) ==
  Error("Expected value of type \"" \o returnType \o "\" but got: "
        \o ToStringJS(result) \o ".")

RECURSIVE resolveField(_, _, _, _, _, _)
RECURSIVE completeValueCatchingError(_, _, _, _, _, _, _)
RECURSIVE completeValueWithLocatedError(_, _, _, _, _, _, _)
RECURSIVE completeValue(_, _, _, _, _, _, _)
RECURSIVE completeListItems(_, _, _, _, _, _, _, _, _)
RECURSIVE completeListValue(_, _, _, _, _, _, _)
RECURSIVE completeAbstractValue(_, _, _, _, _, _, _)
RECURSIVE completeObjectValue(_, _, _, _, _, _, _)
RECURSIVE collectAndExecuteSubfields(_, _, _, _, _, _, _)
RECURSIVE executeFieldEntry(_, _, _, _, _, _, _, _)
RECURSIVE executeFieldsFrom(_, _, _, _, _, _, _, _)
RECURSIVE executeFields(_, _, _, _, _, _)
RECURSIVE collectSubfieldsFrom(_, _, _, _, _)

\* One round of the reduce of executeFields and executeFieldsSerially:
\* resolves the field of one response key and stores it, unless undefined.
executeFieldEntry(exeContext, parentType, sourceValue, path, fields, responseName, results, st) ==
  Bind(resolveField(exeContext, parentType, sourceValue, Get(fields, responseName),
                    addPath(path, NameKey(responseName)), st),
       LAMBDA result :
         IF result.val.t = "undefined" THEN Ret(result.st, results)
         ELSE Ret(result.st, Put(results, responseName, result.val)))

\* The reduce going on with the later fields after one has thrown, and
\* throwing at the end.
executeFieldsToTheEnd(exeContext, parentType, sourceValue, path, fields, i, results, st) ==
  IF i > Len(Keys(fields)) THEN Ret(st, Object("", results))
  ELSE Bind(Try(executeFieldEntry(exeContext, parentType, sourceValue, path,
                                  fields, Keys(fields)[i], results, st),
                LAMBDA failed :
                  Throw(executeFieldsFrom(exeContext, parentType, sourceValue, path,
                                          fields, i + 1, results, failed.st).st,
                        failed.val)),
            LAMBDA r : executeFieldsFrom(exeContext, parentType, sourceValue, path,
                                         fields, i + 1, r.val, r.st))

executeFieldsFrom(exeContext, parentType, sourceValue, path, fields, i, results, st) ==
  IF i > Len(Keys(fields)) THEN Ret(st, Object("", results))
  ELSE Bind(executeFieldEntry(exeContext, parentType, sourceValue, path,
                              fields, Keys(fields)[i], results, st),
            LAMBDA r : executeFieldsFrom(exeContext, parentType, sourceValue, path,
                                         fields, i + 1, r.val, r.st))

executeFields(exeContext, parentType, sourceValue, path, fields, st) ==
  executeFieldsFrom(exeContext, parentType, sourceValue, path, fields, 1, <<>>, st)

executeFieldsSerially(exeContext, parentType, sourceValue, path, fields, st) ==
  executeFieldsFrom(exeContext, parentType, sourceValue, path, fields, 1, <<>>, st)

\* The loop of collectAndExecuteSubfields with a visited-fragment set of its
\* own for every field node.
RECURSIVE collectSubfieldsEachFresh(_, _, _, _, _)
collectSubfieldsEachFresh(exeContext, returnType, fieldNodes, i, acc) ==
  IF i > Len(fieldNodes) THEN acc
  ELSE IF fieldNodes[i].hasSelectionSet
       THEN collectSubfieldsEachFresh(exeContext, returnType, fieldNodes, i + 1,
              collectFields(exeContext, returnType, fieldNodes[i].selectionSet,
                            acc.fields, {}))
       ELSE collectSubfieldsEachFresh(exeContext, returnType, fieldNodes, i + 1, acc)

\* The loop of collectAndExecuteSubfields over the field nodes.
collectSubfieldsFrom(exeContext, returnType, fieldNodes, i, acc) ==
  IF i > Len(fieldNodes) THEN acc
  ELSE IF fieldNodes[i].hasSelectionSet
       THEN collectSubfieldsFrom(exeContext, returnType, fieldNodes, i + 1,
              collectFields(exeContext, returnType, fieldNodes[i].selectionSet,
                            acc.fields, acc.visitedFragmentNames))
       ELSE collectSubfieldsFrom(exeContext, returnType, fieldNodes, i + 1, acc)

collectAndExecuteSubfields(exeContext, returnType, fieldNodes, info, path, result, st) ==
  executeFields(exeContext, returnType, result, path,
    collectSubfieldsFrom(exeContext, returnType, fieldNodes, 1,
      [fields |-> <<>>, visitedFragmentNames |-> {}]).fields,
    st)

\* completeObjectValue without the call of isTypeOf.
completeObjectValueUnchecked(exeContext, returnType, fieldNodes, info, path, result, st) ==
  collectAndExecuteSubfields(exeContext, returnType, fieldNodes, info, path, result, st)

completeObjectValue(exeContext, returnType, fieldNodes, info, path, result, st) ==
  IF HasIsTypeOf(returnType) /\ ~isTypeOf(returnType, result)
  THEN Raise(st, invalidReturnTypeError(returnType, result, fieldNodes))
  ELSE collectAndExecuteSubfields(exeContext, returnType, fieldNodes, info,
                                  path, result, st)

completeAbstractValue(exeContext, returnType, fieldNodes, info, path, result, st) ==
  LET runtimeType ==
        IF HasResolveType(Head(returnType))
        THEN resolveType(Head(returnType), result)
        ELSE defaultResolveTypeFn(result, exeContext.contextValue, info,
                                  Head(returnType))
  IN Bind(ensureValidRuntimeType(runtimeType, exeContext, returnType,
                                 fieldNodes, info, result, st),
          LAMBDA valid : completeObjectValue(exeContext, valid.val.s, fieldNodes,
                                             info, path, result, st))

\* The forEach of completeListValue leaving out the items completed to null.
completeListItemsLeavingOutNull(exeContext, itemType, fieldNodes, info, path, items, i, completedResults, st) ==
  IF i >= Len(items) THEN Ret(st, List(completedResults))
  ELSE Bind(completeValueCatchingError(exeContext, itemType, fieldNodes, info,
                                       addPath(path, IndexKey(i)), items[i + 1], st),
            LAMBDA completedItem :
              completeListItems(exeContext, itemType, fieldNodes, info, path,
                items, i + 1,
                IF completedItem.val.t = "null" THEN completedResults
                ELSE Append(completedResults, completedItem.val),
                completedItem.st))

\* The forEach of completeListValue catching what an item throws: the error
\* is recorded and the item is null.
completeListItemsCatching(exeContext, itemType, fieldNodes, info, path, items, i, completedResults, st) ==
  IF i >= Len(items) THEN Ret(st, List(completedResults))
  ELSE Bind(Try(completeValueCatchingError(exeContext, itemType, fieldNodes, info,
                                           addPath(path, IndexKey(i)), items[i + 1], st),
                LAMBDA item :
                  Ret([item.st EXCEPT !.errors = Append(@, item.val)], Null)),
            LAMBDA completedItem :
              completeListItems(exeContext, itemType, fieldNodes, info, path,
                items, i + 1, Append(completedResults, completedItem.val),
                completedItem.st))

\* The forEach of completeListValue from item i (0-based) on.
completeListItems(exeContext, itemType, fieldNodes, info, path, items, i, completedResults, st) ==
  IF i >= Len(items) THEN Ret(st, List(completedResults))
  ELSE Bind(completeValueCatchingError(exeContext, itemType, fieldNodes, info,
                                       addPath(path, IndexKey(i)), items[i + 1], st),
            LAMBDA completedItem :
              completeListItems(exeContext, itemType, fieldNodes, info, path,
                items, i + 1, Append(completedResults, completedItem.val),
                completedItem.st))

completeListValue(exeContext, returnType, fieldNodes, info, path, result, st) ==
  IF result.t # "list"
  THEN Raise(st, Error("Expected Iterable, but did not find one for field "
                       \o info.parentType \o "." \o info.fieldName \o "."))
  ELSE completeListItems(exeContext, ofType(returnType), fieldNodes, info, path,
                         result.v, 0, <<>>, st)

\* completeValue without the check of the non-null branch.
completeValueNullThrough(exeContext, returnType, fieldNodes, info, path, result, st) ==
  IF result.t = "error" THEN Raise(st, result)
  ELSE IF isNonNull(returnType)
  THEN completeValue(exeContext, ofType(returnType), fieldNodes, info, path, result, st)
  ELSE IF isNullish(result) THEN Ret(st, Null)
  ELSE IF isList(returnType)
  THEN completeListValue(exeContext, returnType, fieldNodes, info, path, result, st)
  ELSE IF isLeafType(returnType) THEN completeLeafValue(returnType, result, st)
  ELSE IF isAbstractType(returnType)
  THEN completeAbstractValue(exeContext, returnType, fieldNodes, info, path, result, st)
  ELSE completeObjectValue(exeContext, Head(returnType), fieldNodes, info, path, result, st)

\* completeValue without the check for an Error at its start: the Error is
\* completed like any other value.
completeValueErrorAsValue(exeContext, returnType, fieldNodes, info, path, result, st) ==
  IF isNonNull(returnType)
  THEN Bind(completeValue(exeContext, ofType(returnType), fieldNodes, info, path,
                          result, st),
            LAMBDA completed :
              IF completed.val.t = "null"
              THEN Raise(completed.st,
                     Error("Cannot return null for non-nullable field "
                           \o info.parentType \o "." \o info.fieldName \o "."))
              ELSE completed)
  ELSE IF isNullish(result) THEN Ret(st, Null)
  ELSE IF isList(returnType)
  THEN completeListValue(exeContext, returnType, fieldNodes, info, path, result, st)
  ELSE IF isLeafType(returnType) THEN completeLeafValue(returnType, result, st)
  ELSE IF isAbstractType(returnType)
  THEN completeAbstractValue(exeContext, returnType, fieldNodes, info, path, result, st)
  ELSE IF isObjectType(returnType)
  THEN completeObjectValue(exeContext, Head(returnType), fieldNodes, info, path,
                           result, st)
  ELSE Raise(st, Error("Cannot complete value of unexpected type \""
                       \o Head(returnType) \o "\"."))

completeValue(exeContext, returnType, fieldNodes, info, path, result, st) ==
  IF result.t = "error" THEN Raise(st, result)
  ELSE IF isNonNull(returnType)
  THEN Bind(completeValue(exeContext, ofType(returnType), fieldNodes, info, path,
                          result, st),
            LAMBDA completed :
              IF completed.val.t = "null"
              THEN Raise(completed.st,
                     Error("Cannot return null for non-nullable field "
                           \o info.parentType \o "." \o info.fieldName \o "."))
              ELSE completed)
  ELSE IF isNullish(result) THEN Ret(st, Null)
  ELSE IF isList(returnType)
  THEN completeListValue(exeContext, returnType, fieldNodes, info, path, result, st)
  ELSE IF isLeafType(returnType) THEN completeLeafValue(returnType, result, st)
  ELSE IF isAbstractType(returnType)
  THEN completeAbstractValue(exeContext, returnType, fieldNodes, info, path, result, st)
  ELSE IF isObjectType(returnType)
  THEN completeObjectValue(exeContext, Head(returnType), fieldNodes, info, path,
                           result, st)
  ELSE Raise(st, Error("Cannot complete value of unexpected type \""
                       \o Head(returnType) \o "\"."))

completeValueWithLocatedError(exeContext, returnType, fieldNodes, info, path, result, st) ==
  Try(completeValue(exeContext, returnType, fieldNodes, info, path, result, st),
      LAMBDA completed :
        Throw(completed.st,
              locatedError(completed.val, fieldNodes, responsePathAsArray(path))))

\* completeValueCatchingError that catches nothing.
completeValueNeverCatching(exeContext, returnType, fieldNodes, info, path, result, st) ==
  completeValueWithLocatedError(exeContext, returnType, fieldNodes, info, path, result, st)

\* completeValueCatchingError recording the error at the non-null levels
\* it passes through as well.
completeValueRecordingEachLevel(exeContext, returnType, fieldNodes, info, path, result, st) ==
  Try(completeValueWithLocatedError(exeContext, returnType, fieldNodes,
                                    info, path, result, st),
      LAMBDA completed :
        IF isNonNull(returnType)
        THEN Throw([completed.st EXCEPT !.errors = Append(@, completed.val)],
                   completed.val)
        ELSE Ret([completed.st EXCEPT !.errors = Append(@, completed.val)], Null))

\* completeValueCatchingError putting the error in front of the list.
completeValueUnshiftingError(exeContext, returnType, fieldNodes, info, path, result, st) ==
  IF isNonNull(returnType)
  THEN completeValueWithLocatedError(exeContext, returnType, fieldNodes, info,
                                     path, result, st)
  ELSE Try(completeValueWithLocatedError(exeContext, returnType, fieldNodes,
                                         info, path, result, st),
           LAMBDA completed :
             Ret([completed.st EXCEPT !.errors = <<completed.val>> \o @], Null))

completeValueCatchingError(exeContext, returnType, fieldNodes, info, path, result, st) ==
  IF isNonNull(returnType)
  THEN completeValueWithLocatedError(exeContext, returnType, fieldNodes, info,
                                     path, result, st)
  ELSE Try(completeValueWithLocatedError(exeContext, returnType, fieldNodes,
                                         info, path, result, st),
           LAMBDA completed :
             Ret([completed.st EXCEPT !.errors = Append(@, completed.val)], Null))

\* resolveField answering null for a field without definition.
resolveFieldNullForUnknown(exeContext, parentType, source, fieldNodes, path, st) ==
  LET fieldNode == fieldNodes[1]
      fieldName == fieldNode.name
      fieldDef == getFieldDef(exeContext.schema, parentType, fieldName)
  IN
  IF ~fieldDef.defined THEN Ret(st, Null)
  ELSE LET resolveFn == IF fieldDef.resolve # NoResolve THEN fieldDef.resolve
                        ELSE exeContext.fieldResolver
           info == buildResolveInfo(exeContext, fieldDef, fieldNodes, parentType, path)
       IN Bind(resolveFieldValueOrError(exeContext, fieldDef, fieldNodes,
                                        resolveFn, source, info, st),
               LAMBDA result :
                 completeValueCatchingError(exeContext, fieldDef.type, fieldNodes,
                                            info, path, result.val, result.st))

resolveField(exeContext, parentType, source, fieldNodes, path, st) ==
  LET fieldNode == fieldNodes[1]
      fieldName == fieldNode.name
      fieldDef == getFieldDef(exeContext.schema, parentType, fieldName)
  IN
  IF ~fieldDef.defined THEN Ret(st, Undefined)
  ELSE LET resolveFn == IF fieldDef.resolve # NoResolve THEN fieldDef.resolve
                        ELSE exeContext.fieldResolver
           info == buildResolveInfo(exeContext, fieldDef, fieldNodes, parentType, path)
       IN Bind(resolveFieldValueOrError(exeContext, fieldDef, fieldNodes,
                                        resolveFn, source, info, st),
               LAMBDA result :
                 completeValueCatchingError(exeContext, fieldDef.type, fieldNodes,
                                            info, path, result.val, result.st))

(***************************************************************************)
(* execution/execute.js: the execute that graphql() imports.  It takes     *)
(* five parameters and knows no context value; the errors it reports carry *)
(* the field nodes and no path.                                            *)
(***************************************************************************)
\* Boolean(x)
ToBoolean(x) ==
  CASE x.t \in {"undefined", "null", "NaN"} -> FALSE
    [] x.t \in {"boolean", "number"} -> x.n # 0
    [] x.t = "string" -> x.s # ""
    [] OTHER -> TRUE

\* new GraphQLError(message, nodes) and locatedError(error, nodes).
execute_GraphQLError(message) == Val("error", 1, message, <<>>)
execute_locatedError(error, fieldASTs) == Val("error", 1, error.s, <<>>)

\* The parameters of execute bound to the arguments of a call, by position:
\* an argument beyond the fifth is dropped.
execute_parameters(arguments) ==
  [schema |-> arguments[1], documentAST |-> arguments[2], rootValue |-> arguments[3],
   variableValues |-> arguments[4], operationName |-> arguments[5]]

\* The forEach of buildExecutionContext: operations by name, '' for an
\* operation without one; a later operation of the same name replaces the
\* earlier.
RECURSIVE execute_buildDefinitions(_, _, _)
execute_buildDefinitions(definitions, i, acc) ==
  IF i > Len(definitions) THEN Returned(acc)
  ELSE LET statement == definitions[i] IN
    CASE statement.kind = "OperationDefinition" ->
           execute_buildDefinitions(definitions, i + 1,
             [acc EXCEPT !.operations = Put(@, statement.name, statement)])
      [] statement.kind = "FragmentDefinition" ->
           execute_buildDefinitions(definitions, i + 1,
             [acc EXCEPT !.fragments = Put(@, statement.name, statement)])
      [] OTHER ->
           Thrown(Error("GraphQL cannot execute a request containing a "
                        \o statement.kind \o "."))

\* operationName is used for its truth value and as a property key.
execute_buildExecutionContext(schema, documentAST, rootValue, rawVariableValues, operationName) ==
  LET built == execute_buildDefinitions(documentAST, 1,
                 [operations |-> <<>>, fragments |-> <<>>])
  IN
  IF built.thrown THEN built
  ELSE IF ~ToBoolean(operationName) /\ Len(built.val.operations) # 1
  THEN Thrown(Error("Must provide operation name if query contains multiple operations."))
  ELSE LET opName == IF ToBoolean(operationName) THEN ToStringJS(operationName)
                     ELSE Keys(built.val.operations)[1]
       IN
       IF ~HasKey(built.val.operations, opName)
       THEN Thrown(Error("Unknown operation named \"" \o opName \o "\"."))
       ELSE LET operation == Get(built.val.operations, opName)
                variableValues ==
                  getVariableValues(schema, operation.variableDefinitions,
                    IF ToBoolean(rawVariableValues) THEN rawVariableValues
                    ELSE Object("Object", <<>>))
            IN
            IF variableValues.thrown THEN variableValues
            ELSE Returned([schema |-> schema,
                           fragments |-> built.val.fragments,
                           rootValue |-> rootValue,
                           contextValue |-> Undefined,
                           operation |-> operation,
                           variableValues |-> variableValues.val,
                           fieldResolver |-> "defaultResolveFn",
                           errors |-> <<>>])

execute_getOperationRootType(schema, operation) ==
  CASE operation.operation = "query" -> Returned(schema.queryType)
    [] operation.operation = "mutation" ->
         IF schema.mutationType = NoType
         THEN Thrown(execute_GraphQLError("Schema is not configured for mutations"))
         ELSE Returned(schema.mutationType)
    [] OTHER ->
         Thrown(execute_GraphQLError("Can only execute queries and mutations"))

\* A skip directive decides alone; include is looked at without it.
execute_shouldIncludeNode(exeContext, directives) ==
  LET skipAST == find(directives, "skip")
      includeAST == find(directives, "include")
  IN
  IF skipAST # 0 THEN ~directives[skipAST].ifArg
  ELSE IF includeAST # 0 THEN directives[includeAST].ifArg
  ELSE TRUE

execute_doesFragmentConditionMatch(exeContext, fragment, type) ==
  LET conditionalType == getType(fragment.typeCondition) IN
  IF conditionalType = type THEN TRUE
  ELSE IF conditionalType # NoType /\ isAbstractType(Named(conditionalType))
       THEN isPossibleType(conditionalType, type)
       ELSE FALSE

RECURSIVE execute_collectFieldsFrom(_, _, _, _, _, _)
execute_collectFieldsFrom(exeContext, runtimeType, selections, i, fields, visitedFragmentNames) ==
  IF i > Len(selections)
  THEN [fields |-> fields, visitedFragmentNames |-> visitedFragmentNames]
  ELSE LET selection == selections[i]
           skip == execute_collectFieldsFrom(exeContext, runtimeType, selections, i + 1,
                                             fields, visitedFragmentNames)
       IN
    CASE selection.kind = "Field" ->
           IF ~execute_shouldIncludeNode(exeContext, selection.directives) THEN skip
           ELSE execute_collectFieldsFrom(exeContext, runtimeType, selections, i + 1,
                  addFieldNode(fields, selection), visitedFragmentNames)
      [] selection.kind = "InlineFragment" ->
           IF ~execute_shouldIncludeNode(exeContext, selection.directives)
              \/ ~execute_doesFragmentConditionMatch(exeContext, selection, runtimeType)
           THEN skip
           ELSE LET inner == execute_collectFieldsFrom(exeContext, runtimeType,
                               selection.selectionSet, 1, fields, visitedFragmentNames)
                IN execute_collectFieldsFrom(exeContext, runtimeType, selections, i + 1,
                                             inner.fields, inner.visitedFragmentNames)
      [] selection.kind = "FragmentSpread" ->
           LET fragName == selection.name IN
           IF fragName \in visitedFragmentNames
              \/ ~execute_shouldIncludeNode(exeContext, selection.directives)
           THEN skip
           ELSE LET visited == visitedFragmentNames \cup {fragName} IN
                IF ~HasKey(exeContext.fragments, fragName)
                   \/ ~execute_doesFragmentConditionMatch(exeContext,
                         Get(exeContext.fragments, fragName), runtimeType)
                THEN execute_collectFieldsFrom(exeContext, runtimeType, selections, i + 1,
                                               fields, visited)
                ELSE LET inner == execute_collectFieldsFrom(exeContext, runtimeType,
                                    Get(exeContext.fragments, fragName).selectionSet,
                                    1, fields, visited)
                     IN execute_collectFieldsFrom(exeContext, runtimeType, selections,
                                                  i + 1, inner.fields,
                                                  inner.visitedFragmentNames)
      [] OTHER -> skip

execute_collectFields(exeContext, runtimeType, selectionSet, fields, visitedFragmentNames) ==
  execute_collectFieldsFrom(exeContext, runtimeType, selectionSet, 1, fields,
                            visitedFragmentNames)

\* The property of the source named as the field, called when it is a
\* function; nothing looks at the source before its property is read.
execute_defaultResolveFn(source, args, info, st) ==
  IF source.t \in {"undefined", "null"}
  THEN Throw(st, Error("Cannot read property '" \o info.fieldName \o "' of " \o source.t))
  ELSE LET property == IF source.t = "object"
                       THEN Get(source.v, info.fieldName) ELSE Undefined
       IN IF typeofJS(property) = "function"
          THEN IF property.s = "throw" THEN Throw(st, property.v[1])
               ELSE Ret(st, property.v[1])
          ELSE Ret(st, property)

\* resolveFn(source, args, info)
execute_callResolveFn(resolveFn, source, args, info, st) ==
  IF resolveFn = "defaultResolveFn"
  THEN execute_defaultResolveFn(source, args, info,
         [st EXCEPT !.log = Append(@, [path |-> <<>>,
                                       parentType |-> info.parentType,
                                       fieldName |-> info.fieldName,
                                       store |-> st.store])])
  ELSE callResolveFn(resolveFn, source, args, Undefined, info, st)

\* abstractType.getObjectType(value, info)
execute_getObjectType(abstractName, result) ==
  IF HasResolveType(abstractName) THEN resolveType(abstractName, result)
  ELSE defaultResolveTypeFrom(getPossibleTypes(abstractName), 1, result)

RECURSIVE execute_resolveField(_, _, _, _, _)
RECURSIVE execute_completeValueCatchingError(_, _, _, _, _, _)
RECURSIVE execute_completeValue(_, _, _, _, _, _)
RECURSIVE execute_completeItems(_, _, _, _, _, _, _, _)
RECURSIVE execute_collectSubfields(_, _, _, _, _)
RECURSIVE execute_executeFieldsFrom(_, _, _, _, _, _, _)

execute_executeFieldsFrom(exeContext, parentType, sourceValue, fields, i, results, st) ==
  IF i > Len(Keys(fields)) THEN Ret(st, Object("", results))
  ELSE Bind(execute_resolveField(exeContext, parentType, sourceValue,
                                 Get(fields, Keys(fields)[i]), st),
            LAMBDA result :
              execute_executeFieldsFrom(exeContext, parentType, sourceValue, fields,
                i + 1,
                IF result.val.t = "undefined" THEN results
                ELSE Put(results, Keys(fields)[i], result.val),
                result.st))

execute_executeFields(exeContext, parentType, sourceValue, fields, st) ==
  execute_executeFieldsFrom(exeContext, parentType, sourceValue, fields, 1, <<>>, st)

execute_executeFieldsSerially(exeContext, parentType, sourceValue, fields, st) ==
  execute_executeFieldsFrom(exeContext, parentType, sourceValue, fields, 1, <<>>, st)

\* The loop of completeValue over the field nodes of an object value.
execute_collectSubfields(exeContext, runtimeType, fieldASTs, i, acc) ==
  IF i > Len(fieldASTs) THEN acc
  ELSE IF fieldASTs[i].hasSelectionSet
       THEN execute_collectSubfields(exeContext, runtimeType, fieldASTs, i + 1,
              execute_collectFields(exeContext, runtimeType, fieldASTs[i].selectionSet,
                                    acc.fields, acc.visitedFragmentNames))
       ELSE execute_collectSubfields(exeContext, runtimeType, fieldASTs, i + 1, acc)

\* result.map(item => completeValueCatchingError(...))
execute_completeItems(exeContext, itemType, fieldASTs, info, items, i, completedResults, st) ==
  IF i > Len(items) THEN Ret(st, List(completedResults))
  ELSE Bind(execute_completeValueCatchingError(exeContext, itemType, fieldASTs, info,
                                               items[i], st),
            LAMBDA completedItem :
              execute_completeItems(exeContext, itemType, fieldASTs, info, items, i + 1,
                Append(completedResults, completedItem.val), completedItem.st))

\* completeValue from the runtime type on: the value of an object or
\* abstract type.
execute_completeObject(exeContext, returnType, fieldASTs, info, result, st) ==
  LET runtimeType ==
        IF isObjectType(returnType) THEN TypeObject(Head(returnType))
        ELSE IF isAbstractType(returnType)
        THEN execute_getObjectType(Head(returnType), result)
        ELSE Undefined
  IN
  IF isAbstractType(returnType) /\ ToBoolean(runtimeType)
     /\ ~(runtimeType.t = "type" /\ isPossibleType(Head(returnType), runtimeType.s))
  THEN Raise(st, execute_GraphQLError("Runtime Object type \"" \o runtimeType.s
               \o "\" is not a possible type for \"" \o Head(returnType) \o "\"."))
  ELSE IF ~ToBoolean(runtimeType) THEN Ret(st, Null)
  ELSE IF HasIsTypeOf(runtimeType.s) /\ ~isTypeOf(runtimeType.s, result)
  THEN Raise(st, execute_GraphQLError("Expected value of type \"" \o runtimeType.s
               \o "\" but got: " \o ToStringJS(result) \o "."))
  ELSE execute_executeFields(exeContext, runtimeType.s, result,
         execute_collectSubfields(exeContext, runtimeType.s, fieldASTs, 1,
           [fields |-> <<>>, visitedFragmentNames |-> {}]).fields,
         st)

execute_completeValue(exeContext, returnType, fieldASTs, info, result, st) ==
  IF isNonNull(returnType)
  THEN Bind(execute_completeValue(exeContext, ofType(returnType), fieldASTs, info,
                                  result, st),
            LAMBDA completed :
              IF completed.val.t = "null"
              THEN Raise(completed.st,
                     execute_GraphQLError("Cannot return null for non-nullable field "
                       \o info.parentType \o "." \o info.fieldName \o "."))
              ELSE completed)
  ELSE IF isNullish(result) THEN Ret(st, Null)
  ELSE IF isList(returnType)
  THEN IF result.t # "list"
       THEN Raise(st, Error("User Error: expected iterable, but did not find one."))
       ELSE execute_completeItems(exeContext, ofType(returnType), fieldASTs, info,
                                  result.v, 1, <<>>, st)
  ELSE IF isLeafType(returnType)
  THEN Ret(st, IF isNullish(serialize(Head(returnType), result)) THEN Null
               ELSE serialize(Head(returnType), result))
  ELSE execute_completeObject(exeContext, returnType, fieldASTs, info, result, st)

execute_completeValueCatchingError(exeContext, returnType, fieldASTs, info, result, st) ==
  IF isNonNull(returnType)
  THEN execute_completeValue(exeContext, returnType, fieldASTs, info, result, st)
  ELSE Try(execute_completeValue(exeContext, returnType, fieldASTs, info, result, st),
           LAMBDA completed :
             Ret([completed.st EXCEPT !.errors = Append(@, completed.val)], Null))

\* resolveField after the arguments are coerced: the call of the resolve
\* function in its try, then the completion of what it returned.
execute_resolveWith(exeContext, returnType, fieldASTs, info, called) ==
  IF called.thrown
  THEN IF isNonNull(returnType)
       THEN Throw(called.st, execute_locatedError(called.val, fieldASTs))
       ELSE Ret([called.st EXCEPT !.errors =
                   Append(@, execute_locatedError(called.val, fieldASTs))], Null)
  ELSE execute_completeValueCatchingError(exeContext, returnType, fieldASTs, info,
                                          called.val, called.st)

execute_resolveField(exeContext, parentType, source, fieldASTs, st) ==
  LET fieldAST == fieldASTs[1]
      fieldName == fieldAST.name
      fieldDef == getFieldDef(exeContext.schema, parentType, fieldName)
  IN
  IF ~fieldDef.defined THEN Ret(st, Undefined)
  ELSE LET returnType == fieldDef.type
           resolveFn == IF fieldDef.resolve # NoResolve THEN fieldDef.resolve
                        ELSE "defaultResolveFn"
           args == getArgumentValues(fieldDef, fieldAST, exeContext.variableValues)
           info == [fieldName |-> fieldName, returnType |-> returnType,
                    parentType |-> parentType, path |-> <<>>]
       IN
       IF args.thrown THEN Throw(st, args.val)
       ELSE execute_resolveWith(exeContext, returnType, fieldASTs, info,
              execute_callResolveFn(resolveFn, source, args.val, info, st))

execute_executeOperation(exeContext, operation, rootValue, st) ==
  LET type == execute_getOperationRootType(exeContext.schema, operation) IN
  IF type.thrown THEN Throw(st, type.val)
  ELSE IF operation.operation = "mutation"
  THEN execute_executeFieldsSerially(exeContext, type.val, rootValue,
         execute_collectFields(exeContext, type.val, operation.selectionSet,
                               <<>>, {}).fields, st)
  ELSE execute_executeFields(exeContext, type.val, rootValue,
         execute_collectFields(exeContext, type.val, operation.selectionSet,
                               <<>>, {}).fields, st)

(***************************************************************************)
(* The inputs of a run.                                                    *)
(***************************************************************************)
\* All sequences over S of length lo..hi.
RECURSIVE SeqsOfLen(_, _)
SeqsOfLen(S, n) ==
  IF n = 0 THEN {<<>>}
  ELSE {Append(q, x) : q \in SeqsOfLen(S, n - 1), x \in S}

SeqsBetween(S, lo, hi) == UNION {SeqsOfLen(S, n) : n \in lo..hi}

Schemas == {Schema(NoType, NoType), Schema("Mutation", "Subscription")}

FullSchema == Schema("Mutation", "Subscription")

\* A root value whose properties misbehave at the positions of `faults`:
\* a fault names a property path, an item index (-1: the property itself)
\* and what is found there.
Fault(pos, idx, kind) == [pos |-> pos, idx |-> idx, kind |-> kind]

ObjectProps(faults, pos) ==
  LET at(name, good) ==
        IF \E f \in faults : f.pos = pos \o "." \o name
        THEN CASE (CHOOSE f \in faults : f.pos = pos \o "." \o name).kind = "null" -> Null
               [] (CHOOSE f \in faults : f.pos = pos \o "." \o name).kind = "throws" ->
                    Function("throw", Error("thrown"))
               [] (CHOOSE f \in faults : f.pos = pos \o "." \o name).kind = "error" ->
                    Function("return", Error("returned"))
               [] OTHER -> Str("abc")
        ELSE good
  IN << Prop("a", at("a", Num(1))), Prop("b", at("b", Function("return", Num(2)))) >>

ItemsOf(faults, pos) ==
  [i \in 1..MaxItems |->
     IF \E f \in faults : f.pos = pos /\ f.idx = i - 1
     THEN CASE (CHOOSE f \in faults : f.pos = pos /\ f.idx = i - 1).kind = "null" -> Null
            [] (CHOOSE f \in faults : f.pos = pos /\ f.idx = i - 1).kind = "error" ->
                 Error("item")
            [] OTHER -> Str("abc")
     ELSE Num(10 + i)]

PropertyAt(faults, pos, good) ==
  IF \E f \in faults : f.pos = pos /\ f.idx = -1
  THEN LET kind == (CHOOSE f \in faults : f.pos = pos /\ f.idx = -1).kind IN
       CASE kind = "null" -> Null
         [] kind = "undefined" -> Undefined
         [] kind = "NaN" -> NaN
         [] kind = "error" -> Error("returned")
         [] kind = "throws" -> Function("throw", Error("thrown"))
         [] kind = "throwsString" -> Function("throw", Str("thrown"))
         [] kind = "badleaf" -> Str("abc")
         [] kind = "notlist" -> Num(5)
         [] kind = "Other" -> Object("Other", ObjectProps(faults, pos))
         [] kind = "Int" -> Object("Int", ObjectProps(faults, pos))
         [] kind = "Nope" -> Object("Nope", ObjectProps(faults, pos))
         [] OTHER -> Undefined
  ELSE good

RootValue(faults) ==
  Object("Root",
    << Prop("hello", PropertyAt(faults, "hello", Num(7))),
       Prop("must", PropertyAt(faults, "must", Function("return", Num(8)))),
       Prop("obj", PropertyAt(faults, "obj", Object("Obj", ObjectProps(faults, "obj")))),
       Prop("req", PropertyAt(faults, "req", Object("Obj", ObjectProps(faults, "req")))),
       Prop("list", PropertyAt(faults, "list", List(ItemsOf(faults, "list")))),
       Prop("strict", PropertyAt(faults, "strict", List(ItemsOf(faults, "strict")))),
       Prop("node", PropertyAt(faults, "node", Object("Obj", ObjectProps(faults, "node")))),
       Prop("pet", PropertyAt(faults, "pet", Object("Obj", ObjectProps(faults, "pet")))),
       Prop("odd", PropertyAt(faults, "odd", Num(9))),
       Prop("plain", PropertyAt(faults, "plain",
                                Object("Object", ObjectProps(faults, "plain")))) >>)

Faults ==
  {Fault("hello", -1, k) :
     k \in {"null", "undefined", "NaN", "error", "throws", "throwsString", "badleaf"}}
  \cup {Fault("must", -1, k) : k \in {"null", "NaN", "throws"}}
  \cup {Fault("obj", -1, k) : k \in {"null", "Other"}}
  \cup {Fault("obj.a", -1, k) : k \in {"badleaf"}}
  \cup {Fault("obj.b", -1, k) : k \in {"null", "throws"}}
  \cup {Fault("req", -1, k) : k \in {"null"}}
  \cup {Fault("req.b", -1, k) : k \in {"null"}}
  \cup {Fault("list", -1, k) : k \in {"notlist"}}
  \cup {Fault("list", i, k) : i \in 0..(MaxItems - 1), k \in {"null", "error", "badleaf"}}
  \cup {Fault("strict", i, k) : i \in 0..(MaxItems - 1), k \in {"null", "error", "badleaf"}}
  \cup {Fault("node", -1, k) : k \in {"Other", "Int", "Nope", "notlist"}}
  \cup {Fault(pos, -1, "error") :
          pos \in {"must", "obj", "obj.b", "req", "list", "strict", "node"}}
  \cup {Fault("pet", -1, k) : k \in {"Nope", "Other", "Int", "notlist"}}

\* What a leaf field finds that its type does not serialize.
LeafFaults ==
  {Fault("odd", -1, k) : k \in {"badleaf", "Nope", "null"}}
  \cup {Fault("hello", -1, k) : k \in {"badleaf", "Nope"}}
  \cup {Fault("plain", -1, k) : k \in {"Other"}}

\* The faults that are combined with each other: one at every position
\* where a failure stays, passes on, or meets another.
CombinedFaults ==
  { Fault("hello", -1, "throws"), Fault("must", -1, "null"),
    Fault("obj", -1, "Other"), Fault("obj.a", -1, "badleaf"),
    Fault("obj.b", -1, "null"), Fault("req.b", -1, "null"),
    Fault("list", 0, "error"), Fault("list", MaxItems - 1, "badleaf"),
    Fault("strict", 0, "null"), Fault("strict", MaxItems - 1, "badleaf"),
    Fault("node", -1, "Nope") }

\* The sets of at most n combined faults.
RECURSIVE CombinedFaultSets(_)
CombinedFaultSets(n) ==
  IF n = 0 THEN {{}}
  ELSE LET less == CombinedFaultSets(n - 1) IN
       less \cup UNION {{fs \cup {f} : f \in CombinedFaults} : fs \in less}

\* The fault sets of the runs: every fault alone, and the combined ones.
FaultSets(n) == {{f} : f \in Faults} \cup CombinedFaultSets(n)

\* The query that reads every position of the root value.
FaultSelections ==
  << Field("hello"), Field("must"),
     FieldWith("obj", <<Field("a"), Field("b")>>),
     FieldWith("req", <<Field("a"), Field("b")>>),
     Field("list"), Field("strict"),
     FieldWith("node", <<Field("a")>>),
     FieldWith("pet", <<Field("b")>>) >>

\* The fragments every generated document defines: F and G spread each
\* other.
FragmentF == FragmentDefinition("F", "Query", <<Field("list"), FragmentSpread("G")>>)
FragmentG == FragmentDefinition("G", "Query", <<Field("hello"), FragmentSpread("F")>>)
\* A fragment that spreads itself.
FragmentS == FragmentDefinition("S", "Query", <<Field("must"), FragmentSpread("S")>>)

\* The selections the generated root selection sets of a query are made of.
QuerySelections ==
  { Field("hello"), Field("must"), Aliased("x", Field("hello")),
    FieldWith("obj", <<Field("a")>>),
    FieldWith("obj", <<Field("b"), Field("__schema"), Field("__typename")>>),
    InlineFragment("Query", <<Field("must"), Field("hello")>>),
    InlineFragment("Obj", <<Field("hello")>>),
    FragmentSpread("F"),
    WithDirectives(FragmentSpread("G"), <<Directive("include", FALSE)>>),
    WithDirectives(Field("must"), <<Directive("skip", TRUE)>>),
    Field("boyhowdy"), Field("__typename"),
    WithBadArguments(Field("hello")) }

\* A fragment on Obj, and the selections of the documents whose root fields
\* share response keys: nodes of one key differ in name, in arguments and in
\* selection set.
FragmentO == FragmentDefinition("O", "Obj", <<Field("a")>>)

MergeSelections ==
  { Field("hello"), Aliased("hello", Field("must")),
    WithBadArguments(Field("hello")),
    FieldWith("obj", <<FragmentSpread("O")>>),
    FieldWith("obj", <<Field("b"), FragmentSpread("O")>>),
    Aliased("obj", FieldWith("req", <<Field("b")>>)),
    FieldWith("req", <<FragmentSpread("O")>>) }

\* Root values of every shape typeof tells apart: the sources the default
\* resolver meets at the root fields.
SourceShapes ==
  {Null, Undefined, Num(3), Str("root"), Bool(TRUE), List(<<>>),
   Function("return", Num(1))}

MutationSelections ==
  { Field("incr"), Field("read"), Field("fail"), Field("crash"),
    FieldWith("self", <<Field("incr"), Field("read")>>),
    FieldWith("self", <<Field("crash"), Field("incr")>>) }

\* The directive lists of a node: at most one directive of a name.
Directives ==
  {Directive(name, ifArg) : name \in {"skip", "include"}, ifArg \in BOOLEAN}
  \cup {Directive("other", TRUE)}

DirectiveLists ==
  {<<>>} \cup {<<d>> : d \in Directives}
  \cup UNION {{<<d, e>> : e \in {f \in Directives : f.name # d.name}} :
              d \in Directives}

\* The nodes that carry a directive list, one of each kind, and the
\* selections that follow such a node in the generated selection sets.
DirectedNodes(directives) ==
  { WithDirectives(Field("hello"), directives),
    WithDirectives(InlineFragment("Query", <<Field("hello")>>), directives),
    WithDirectives(FragmentSpread("G"), directives) }

FollowingSelections ==
  {Field("must"), FragmentSpread("G"), FragmentSpread("F"), FragmentSpread("S")}

\* The definitions the generated documents of the context family are made of.
ContextDefinitions ==
  { OperationDefinition("query", "", <<Field("hello")>>),
    OperationDefinition("query", "A", <<Field("hello")>>),
    OperationDefinition("mutation", "M", <<Field("incr")>>),
    OperationDefinition("subscription", "S", <<Field("hello")>>),
    OperationDefinition("bogus", "A", <<Field("hello")>>),
    [OperationDefinition("query", "V", <<Field("must")>>) EXCEPT
       !.variableDefinitions = <<"v">>],
    FragmentF,
    Definition("SchemaDefinition", "", "", <<>>, "", <<>>) }

\* A document with one more definition at place i.
InsertAt(definitions, i, definition) ==
  SubSeq(definitions, 1, i - 1) \o <<definition>>
    \o SubSeq(definitions, i, Len(definitions))

OperationNames == {"", "A", "V"}

RawVariableValues == {Undefined, Object("Object", <<Prop("v", Num(1))>>), Str("{}")}

(***************************************************************************)
(* The run of execute(schema, document, rootValue, contextValue,           *)
(* variableValues, operationName).                                         *)
(***************************************************************************)
VARIABLES
  pc,              \* "start", "context", "fields", "executed", "returned", "raised";
                   \* around them for graphql(): "graphql", "rejected", "answered"
  request,         \* what graphql() was called with; DirectCall otherwise
  result,          \* what graphql() returned
  schema, document, rootValue, contextValue, variableValues, operationName,
  exeContext,      \* the execution context, with its error list
  type,            \* the root type of the operation
  fields,          \* the grouping of the root selection set
  cursor,          \* the root response key the reduce is at
  results,         \* the results object of the root reduce
  data,            \* what executeOperation returned
  store, log,      \* the resolvers' counter; the calls of resolve functions
  failures,        \* how many errors the run raised
  response,        \* what execute returned
  raised           \* what execute raised

inputs == <<schema, document, rootValue, contextValue, variableValues, operationName,
            request>>
vars == <<pc, request, result, schema, document, rootValue, contextValue, variableValues,
          operationName, exeContext, type, fields, cursor, results, data,
          store, log, failures, response, raised>>

NoContext ==
  [schema |-> Schema(NoType, NoType), fragments |-> <<>>, rootValue |-> Undefined,
   contextValue |-> Undefined, operation |-> NoOperation,
   variableValues |-> Undefined, fieldResolver |-> "", errors |-> <<>>]

Response(hasErrors, errors, hasData, d) ==
  [hasErrors |-> hasErrors, errors |-> errors, hasData |-> hasData, data |-> d]
NoResponse == Response(FALSE, <<>>, FALSE, Undefined)

\* A request string as parse and validate take it: parse raises a syntax
\* error or answers the document, validate answers its errors.
Request(syntaxError, d, validationErrors) ==
  [graphql |-> TRUE, syntaxError |-> syntaxError, document |-> d,
   validationErrors |-> validationErrors]
DirectCall ==
  [graphql |-> FALSE, syntaxError |-> FALSE, document |-> <<>>,
   validationErrors |-> <<>>]

ValidationErrors ==
  { <<>>, <<Error("Cannot query field boyhowdy on Query")>>,
    <<Error("Cannot query field boyhowdy on Query"), Error("Unknown fragment")>> }

Requests ==
  {Request(TRUE, <<>>, <<>>)}
  \cup {Request(FALSE, d, errors) :
          d \in SeqsBetween(ContextDefinitions, 0, 1)
                 \cup { <<OperationDefinition("query", "", <<Field("hello"), Field("must")>>)>>,
                        <<OperationDefinition("mutation", "", <<Field("incr"), Field("crash")>>)>>,
                        <<OperationDefinition("query", "A", <<Field("hello")>>),
                          OperationDefinition("mutation", "M", <<Field("incr")>>)>> },
          errors \in ValidationErrors}

Idle ==
  /\ exeContext = NoContext /\ type = NoType /\ fields = <<>> /\ cursor = 0
  /\ results = <<>> /\ data = Undefined /\ store = 0 /\ log = <<>>
  /\ failures = 0
  /\ response = NoResponse /\ raised = Undefined /\ result = NoResponse

\* graphql(schema, requestString, rootValue, contextValue, variableValues,
\* operationName) is called.
StartGraphql(req, s, r, v, n) ==
  /\ pc = "graphql" /\ request = req
  /\ schema = s /\ document = <<>> /\ rootValue = r
  /\ contextValue = Str("context") /\ variableValues = v /\ operationName = n
  /\ Idle

Start(s, d, r, v, n) ==
  /\ pc = "start" /\ request = DirectCall /\ result = NoResponse
  /\ schema = s /\ document = d /\ rootValue = r
  /\ contextValue = Str("context") /\ variableValues = v /\ operationName = n
  /\ exeContext = NoContext /\ type = NoType /\ fields = <<>> /\ cursor = 0
  /\ results = <<>> /\ data = Undefined /\ store = 0 /\ log = <<>>
  /\ failures = 0
  /\ response = NoResponse /\ raised = Undefined

Init ==
  \/ \E d \in SeqsBetween(ContextDefinitions, 0, MaxDefs), s \in Schemas,
        v \in RawVariableValues, n \in OperationNames :
       Start(s, d, RootValue({}), v, n)
  \/ \E d \in SeqsBetween(ContextDefinitions, 0, MaxDefs), n \in OperationNames :
       \E i \in 1..(Len(d) + 1) :
         Start(FullSchema, InsertAt(d, i, FragmentG), RootValue({}), Undefined, n)
  \/ \E sels \in SeqsBetween(QuerySelections, 1, MaxSel) :
       Start(FullSchema,
             <<FragmentF, OperationDefinition("query", "", sels), FragmentG>>,
             RootValue({}), Undefined, "")
  \/ \E sels \in SeqsBetween(MutationSelections, 1, MaxSel) :
       Start(FullSchema, <<OperationDefinition("mutation", "", sels)>>,
             Undefined, Undefined, "")
  \/ \E faults \in FaultSets(MaxFaults) :
       Start(FullSchema, <<OperationDefinition("query", "", FaultSelections)>>,
             RootValue(faults), Undefined, "")
  \/ \E faults \in SUBSET LeafFaults :
       /\ Cardinality(faults) <= MaxFaults
       /\ \A f, g \in faults : f.pos = g.pos => f = g
       /\ Start(FullSchema,
                <<OperationDefinition("query", "",
                    <<Field("odd"), Field("hello"),
                      FieldWith("plain", <<Field("a"), Field("b")>>)>>)>>,
                RootValue(faults), Undefined, "")
  \/ \E sels \in SeqsBetween(MergeSelections, MaxSel, MaxSel) :
       Start(FullSchema, <<OperationDefinition("query", "", sels), FragmentO>>,
             RootValue({}), Undefined, "")
  \/ \E r \in SourceShapes, sels \in SeqsBetween({Field("hello"), Field("list")}, 1, MaxSel) :
       Start(FullSchema, <<OperationDefinition("query", "", sels)>>, r, Undefined, "")
  \/ \E req \in Requests, s \in Schemas, v \in RawVariableValues, n \in {"", "A"} :
       StartGraphql(req, s, RootValue({}), v, n)
  \/ \E directives \in DirectiveLists, following \in FollowingSelections :
       \E node \in DirectedNodes(directives) :
         Start(FullSchema,
               <<FragmentF, OperationDefinition("query", "", <<node, following>>),
                 FragmentG, FragmentS>>,
               RootValue({}), Undefined, "")

\* Essential assertions before executing (invariant(...) raises).
assertValidExecutionArguments(s, d, rawVariableValues) ==
  IF rawVariableValues.t = "undefined" \/ typeofJS(rawVariableValues) = "object"
  THEN Returned(Undefined)
  ELSE Thrown(Error("Variables must be provided as an Object where each property is a variable value."))

\* executeImpl answering a failure of buildExecutionContext with a data key.
BuildContextWithData ==
  /\ pc = "start" /\ ~request.graphql
  /\ LET valid == assertValidExecutionArguments(schema, document, variableValues)
         context == buildExecutionContext(schema, document, rootValue, contextValue,
                      variableValues, operationName, "")
     IN IF valid.thrown
        THEN /\ pc' = "raised"
             /\ raised' = valid.val
             /\ failures' = 1
             /\ UNCHANGED <<exeContext, response>>
        ELSE IF context.thrown
        THEN /\ pc' = "returned"
             /\ response' = Response(TRUE, <<context.val>>, TRUE, Null)
             /\ failures' = 1
             /\ UNCHANGED <<exeContext, raised>>
        ELSE /\ pc' = "context"
             /\ exeContext' = context.val
             /\ UNCHANGED <<response, raised, failures>>
  /\ UNCHANGED <<inputs, result, type, fields, cursor, results, data, store, log>>

\* executeImpl up to the context: the assertions, then buildExecutionContext
\* inside its try; a failure there is answered as {errors: [error]}.
BuildContext ==
  /\ pc = "start" /\ ~request.graphql
  /\ LET valid == assertValidExecutionArguments(schema, document, variableValues)
         context == buildExecutionContext(schema, document, rootValue, contextValue,
                      variableValues, operationName, "")
     IN IF valid.thrown
        THEN /\ pc' = "raised"
             /\ raised' = valid.val
             /\ failures' = 1
             /\ UNCHANGED <<exeContext, response>>
        ELSE IF context.thrown
        THEN /\ pc' = "returned"
             /\ response' = Response(TRUE, <<context.val>>, FALSE, Undefined)
             /\ failures' = 1
             /\ UNCHANGED <<exeContext, raised>>
        ELSE /\ pc' = "context"
             /\ exeContext' = context.val
             /\ UNCHANGED <<response, raised, failures>>
  /\ UNCHANGED <<inputs, result, type, fields, cursor, results, data, store, log>>

\* executeOperation before its try: the root type and the root grouping.
\* Nothing catches what getOperationRootType throws.
BeginOperation ==
  /\ pc = "context" /\ ~request.graphql
  /\ LET rootType == getOperationRootType(exeContext.schema, exeContext.operation) IN
     IF rootType.thrown
     THEN /\ pc' = "raised"
          /\ raised' = rootType.val
          /\ failures' = failures + 1
          /\ UNCHANGED <<type, fields, cursor>>
     ELSE /\ pc' = "fields"
          /\ type' = rootType.val
          /\ fields' = collectFields(exeContext, rootType.val,
                         exeContext.operation.selectionSet, <<>>, {}).fields
          /\ cursor' = 1
          /\ UNCHANGED <<raised, failures>>
  /\ UNCHANGED <<inputs, result, exeContext, results, data, store, log, response>>

\* The catch of executeOperation keeping only the error it caught.
RootFieldDoneForgetting(r) ==
  /\ store' = r.st.store
  /\ log' = r.st.log
  /\ failures' = r.st.failures
  /\ IF r.thrown
     THEN /\ exeContext' = [exeContext EXCEPT !.errors = <<r.val>>]
          /\ data' = Null
          /\ pc' = "executed"
          /\ UNCHANGED <<results, cursor>>
     ELSE /\ exeContext' = [exeContext EXCEPT !.errors = r.st.errors]
          /\ results' = r.val
          /\ cursor' = cursor + 1
          /\ UNCHANGED <<data, pc>>

\* One round of the root reduce (executeFieldsSerially for a mutation,
\* executeFields otherwise).  What it throws is caught by executeOperation:
\* the error is pushed and the data is null.
RootFieldDone(r) ==
  /\ store' = r.st.store
  /\ log' = r.st.log
  /\ failures' = r.st.failures
  /\ IF r.thrown
     THEN /\ exeContext' = [exeContext EXCEPT !.errors = Append(r.st.errors, r.val)]
          /\ data' = Null
          /\ pc' = "executed"
          /\ UNCHANGED <<results, cursor>>
     ELSE /\ exeContext' = [exeContext EXCEPT !.errors = r.st.errors]
          /\ results' = r.val
          /\ cursor' = cursor + 1
          /\ UNCHANGED <<data, pc>>

ExecuteRootField ==
  /\ pc = "fields"
  /\ cursor <= Len(Keys(fields))
  /\ RootFieldDone(executeFieldEntry(exeContext, type, rootValue, <<>>, fields,
                     Keys(fields)[cursor], results,
                     [errors |-> exeContext.errors, log |-> log, store |-> store,
                      failures |-> failures]))
  /\ UNCHANGED <<inputs, result, type, fields, response, raised>>

\* The root reduce is through: executeOperation returns its result.
EndOperation ==
  /\ pc = "fields"
  /\ cursor > Len(Keys(fields))
  /\ data' = Object("", results)
  /\ pc' = "executed"
  /\ UNCHANGED <<inputs, result, exeContext, type, fields, cursor, results, store, log,
                 failures, response, raised>>

\* executeImpl answering with the errors key whatever the error list holds.
ReturnResponseAlwaysErrors ==
  /\ pc = "executed"
  /\ response' = Response(TRUE, exeContext.errors, TRUE, data)
  /\ pc' = "returned"
  /\ UNCHANGED <<inputs, result, exeContext, type, fields, cursor, results, data, store,
                 log, failures, raised>>

\* executeImpl returns the response.
ReturnResponse ==
  /\ pc = "executed"
  /\ response' = IF Len(exeContext.errors) = 0
                 THEN Response(FALSE, <<>>, TRUE, data)
                 ELSE Response(TRUE, exeContext.errors, TRUE, data)
  /\ pc' = "returned"
  /\ UNCHANGED <<inputs, result, exeContext, type, fields, cursor, results, data, store,
                 log, failures, raised>>

\* graphql() calling execute whatever validate answered.
GraphqlRequestUnvalidated ==
  /\ pc = "graphql"
  /\ IF request.syntaxError
     THEN /\ result' = Response(TRUE, <<Error("Syntax Error")>>, FALSE, Undefined)
          /\ pc' = "rejected"
          /\ UNCHANGED document
     ELSE /\ document' = request.document
          /\ pc' = "start"
          /\ UNCHANGED result
  /\ UNCHANGED <<schema, rootValue, contextValue, variableValues, operationName,
                 request, exeContext, type, fields, cursor, results, data, store,
                 log, failures, response, raised>>

\* graphql() up to its call of execute: parse and validate inside the try.
\* A syntax error is caught and answered, validation errors are answered.
GraphqlRequest ==
  /\ pc = "graphql"
  /\ IF request.syntaxError
     THEN /\ result' = Response(TRUE, <<Error("Syntax Error")>>, FALSE, Undefined)
          /\ pc' = "rejected"
          /\ UNCHANGED document
     ELSE IF Len(request.validationErrors) > 0
     THEN /\ result' = Response(TRUE, request.validationErrors, FALSE, Undefined)
          /\ pc' = "rejected"
          /\ UNCHANGED document
     ELSE /\ document' = request.document
          /\ pc' = "start"
          /\ UNCHANGED result
  /\ UNCHANGED <<schema, rootValue, contextValue, variableValues, operationName,
                 request, exeContext, type, fields, cursor, results, data, store,
                 log, failures, response, raised>>

\* graphql() after execute: what execute returned is returned, what it
\* raised is caught and answered.
GraphqlReturn ==
  /\ request.graphql
  /\ pc \in {"returned", "raised"}
  /\ result' = IF pc = "returned" THEN response
               ELSE Response(TRUE, <<raised>>, FALSE, Undefined)
  /\ pc' = "answered"
  /\ UNCHANGED <<inputs, exeContext, type, fields, cursor, results, data, store,
                 log, failures, response, raised>>

\* The arguments graphql() calls execute with, in their order.
executeArguments ==
  <<schema, document, rootValue, contextValue, variableValues,
    IF operationName = "" THEN Undefined ELSE Str(operationName)>>

\* execute of execution/execute.js as graphql() calls it, up to the context:
\* what buildExecutionContext throws leaves execute.
ExecuteContext ==
  /\ pc = "start" /\ request.graphql
  /\ LET parameters == execute_parameters(executeArguments)
         context == execute_buildExecutionContext(parameters.schema,
                      parameters.documentAST, parameters.rootValue,
                      parameters.variableValues, parameters.operationName)
     IN IF context.thrown
        THEN /\ pc' = "raised"
             /\ raised' = context.val
             /\ failures' = 1
             /\ UNCHANGED exeContext
        ELSE /\ pc' = "context"
             /\ exeContext' = context.val
             /\ UNCHANGED <<raised, failures>>
  /\ UNCHANGED <<inputs, result, type, fields, cursor, results, data, store, log,
                 response>>

\* The catch of execute and its return: the error is pushed, the data is
\* null, and the errors key is there when there is an error.
OperationDone(r) ==
  /\ store' = r.st.store
  /\ log' = r.st.log
  /\ failures' = r.st.failures
  /\ IF r.thrown
     THEN /\ exeContext' = [exeContext EXCEPT !.errors = Append(r.st.errors, r.val)]
          /\ data' = Null
          /\ response' = Response(TRUE, Append(r.st.errors, r.val), TRUE, Null)
     ELSE /\ exeContext' = [exeContext EXCEPT !.errors = r.st.errors]
          /\ data' = r.val
          /\ response' = IF Len(r.st.errors) = 0
                         THEN Response(FALSE, <<>>, TRUE, r.val)
                         ELSE Response(TRUE, r.st.errors, TRUE, r.val)
  /\ pc' = "returned"

\* execute of execution/execute.js from the context on: executeOperation
\* inside its try, and the response.
ExecuteOperation ==
  /\ pc = "context" /\ request.graphql
  /\ OperationDone(execute_executeOperation(exeContext, exeContext.operation,
                     execute_parameters(executeArguments).rootValue,
                     [errors |-> exeContext.errors, log |-> log, store |-> store,
                      failures |-> failures]))
  /\ UNCHANGED <<inputs, result, type, fields, cursor, results, raised>>

Next ==
  \/ GraphqlRequest
  \/ GraphqlReturn
  \/ ExecuteContext
  \/ ExecuteOperation
  \/ BuildContext
  \/ BeginOperation
  \/ ExecuteRootField
  \/ EndOperation
  \/ ReturnResponse

Spec == Init /\ [][Next]_vars

(***************************************************************************)
(* Reading a run: the declared type, the completed value and the source    *)
(* value of a response position, found by walking the schema, the response *)
(* and the root value along a path (an array of keys, outermost first).    *)
(***************************************************************************)
\* The statements about execute are about the execute of graphql.js, called
\* directly; graphql() calls the one of execution/execute.js.
Returned_ == pc = "returned" /\ ~request.graphql
\* execute has been called and is past its first step; execute has returned.
ExecuteCalled == ~request.graphql /\ pc \notin {"graphql", "rejected", "start"}
ExecuteReturned == Returned_
Running == pc \in {"fields", "executed", "returned"} /\ type # NoType

\* The object type whose fields a completed value of composite type T has:
\* the possible types of the abstract types of this schema have the fields
\* of Obj.
CompletedAs(T) == IF isAbstractType(T) THEN "Obj" ELSE Head(T)

Nullable(T) == IF isNonNull(T) THEN ofType(T) ELSE T

SubGrouping(fieldNodes, typeName) ==
  collectSubfieldsFrom(exeContext, typeName, fieldNodes, 1,
                       [fields |-> <<>>, visitedFragmentNames |-> {}]).fields

DeclaredType(parentType, fieldNodes) ==
  getFieldDef(schema, parentType, fieldNodes[1].name).type

\* The position p[1..n], n >= 1: its declared type, its field nodes, and
\* the field's parent type.
RECURSIVE PositionAt(_, _)
PositionAt(p, n) ==
  IF n = 1
  THEN [T |-> DeclaredType(type, Get(fields, p[1].s)),
        nodes |-> Get(fields, p[1].s), parentType |-> type]
  ELSE LET up == PositionAt(p, n - 1) IN
       IF p[n].n >= 0
       THEN [T |-> ofType(Nullable(up.T)), nodes |-> up.nodes,
             parentType |-> up.parentType]
       ELSE LET typeName == CompletedAs(Nullable(up.T))
                sub == SubGrouping(up.nodes, typeName)
            IN [T |-> DeclaredType(typeName, Get(sub, p[n].s)),
                nodes |-> Get(sub, p[n].s), parentType |-> typeName]

\* Stepping from a value to the member a key names; undefined when absent.
Member(up, key, name) ==
  IF key.n >= 0
  THEN IF up.t = "list" /\ key.n < Len(up.v) THEN up.v[key.n + 1] ELSE Undefined
  ELSE IF up.t = "object" THEN Get(up.v, name) ELSE Undefined

\* The value the response data holds at p[1..n]; n = 0 is the data itself.
RECURSIVE ValueAt(_, _, _)
ValueAt(d, p, n) ==
  IF n = 0 THEN d
  ELSE Member(ValueAt(d, p, n - 1), p[n], p[n].s)

\* What the default resolver finds in the root value at p[1..n].
Called(property) ==
  IF property.t = "function" /\ property.s = "return" THEN property.v[1]
  ELSE property

RECURSIVE SourceAt(_, _)
SourceAt(p, n) ==
  IF n = 0 THEN rootValue
  ELSE Called(Member(SourceAt(p, n - 1), p[n], PositionAt(p, n).nodes[1].name))

\* The innermost nullable position of p; 0 when every position is non-null.
NearestNullable(p) ==
  LET nullable == {n \in 1..Len(p) : ~isNonNull(PositionAt(p, n).T)} IN
  IF nullable = {} THEN 0
  ELSE CHOOSE n \in nullable : \A m \in nullable : m <= n

NameKeys(names) == [i \in 1..Len(names) |-> NameKey(names[i])]

CannotReturnNull(parentType, fieldName) ==
  "Cannot return null for non-nullable field " \o parentType \o "." \o fieldName \o "."

ErrorsAt(errors, p) == {k \in 1..Len(errors) : errors[k].v = p}

\* No position of non-null type in `value`, completed for type T, is null.
RECURSIVE NoNullWhereNonNull(_, _, _)
NoNullWhereNonNull(value, T, fieldNodes) ==
  IF isNonNull(T)
  THEN value.t # "null" /\ NoNullWhereNonNull(value, ofType(T), fieldNodes)
  ELSE IF value.t = "null" THEN TRUE
  ELSE IF isList(T)
  THEN /\ value.t = "list"
       /\ \A i \in 1..Len(value.v) :
            NoNullWhereNonNull(value.v[i], ofType(T), fieldNodes)
  ELSE IF isLeafType(T) THEN value.t \in {"number", "string"}
  ELSE LET typeName == CompletedAs(T)
           sub == SubGrouping(fieldNodes, typeName)
       IN /\ value.t = "object"
          /\ \A i \in 1..Len(value.v) :
               /\ HasKey(sub, value.v[i].k)
               /\ NoNullWhereNonNull(value.v[i].v,
                    DeclaredType(typeName, Get(sub, value.v[i].k)),
                    Get(sub, value.v[i].k))

\* A resolver call of the log that found null for a non-null field.
FoundNullForNonNull(l) ==
  /\ getFieldDef(schema, l.parentType, l.fieldName).resolve = NoResolve
  /\ isNonNull(getFieldDef(schema, l.parentType, l.fieldName).type)
  /\ isNullish(SourceAt(l.path, Len(l.path)))

\* An item of a list of non-null items that is null, no item before it.
FirstNullItem(l, i) ==
  /\ getFieldDef(schema, l.parentType, l.fieldName).resolve = NoResolve
  /\ isList(Nullable(getFieldDef(schema, l.parentType, l.fieldName).type))
  /\ isNonNull(ofType(Nullable(getFieldDef(schema, l.parentType, l.fieldName).type)))
  /\ SourceAt(l.path, Len(l.path)).t = "list"
  /\ i < Len(SourceAt(l.path, Len(l.path)).v)
  /\ isNullish(SourceAt(l.path, Len(l.path)).v[i + 1])
  /\ \A j \in 0..(i - 1) : SourceAt(l.path, Len(l.path)).v[j + 1].t = "number"

\* C1: no position of non-null declared type holds null in any response;
\* a null found for such a position raises "Cannot return null for
\* non-nullable field", and the response is null at the nearest enclosing
\* nullable position of that error's path, or data is null when there is
\* none, with nothing of the response left below it.
C1_NonNullNeverNull ==
  /\ Running =>
       /\ \A k \in 1..Len(log) :
            FoundNullForNonNull(log[k]) =>
              \E e \in 1..Len(exeContext.errors) :
                /\ exeContext.errors[e].v = log[k].path
                /\ exeContext.errors[e].s =
                     CannotReturnNull(log[k].parentType, log[k].fieldName)
       /\ \A k \in 1..Len(log), i \in 0..(MaxItems - 1) :
            FirstNullItem(log[k], i) =>
              \E e \in 1..Len(exeContext.errors) :
                /\ exeContext.errors[e].v = Append(log[k].path, IndexKey(i))
                /\ exeContext.errors[e].s =
                     CannotReturnNull(log[k].parentType, log[k].fieldName)
  /\ (Returned_ /\ response.hasData) =>
       /\ response.data.t \in {"null", "object"}
       /\ response.data.t = "object" =>
            \A i \in 1..Len(response.data.v) :
              /\ HasKey(fields, response.data.v[i].k)
              /\ NoNullWhereNonNull(response.data.v[i].v,
                   DeclaredType(type, Get(fields, response.data.v[i].k)),
                   Get(fields, response.data.v[i].k))
       /\ \A k \in 1..Len(response.errors) :
            LET p == response.errors[k].v
                nearest == NearestNullable(p)
            IN /\ \E n \in 0..nearest : ValueAt(response.data, p, n) = Null
               /\ \A n \in (nearest + 1)..Len(p) :
                    ValueAt(response.data, p, n) = Undefined
               /\ Len(response.errors) = 1 =>
                    /\ ValueAt(response.data, p, nearest) = Null
                    /\ \A n \in 0..(nearest - 1) :
                         ~isNullish(ValueAt(response.data, p, n))

\* A null found for the non-null Obj.b nulled obj, its nearest nullable
\* position, and left the rest of the data in place.
C1_Witness ==
  /\ Returned_ /\ response.hasData /\ response.data.t = "object"
  /\ Get(response.data.v, "obj") = Null
  /\ Get(response.data.v, "req").t = "object"
  /\ \E k \in 1..Len(response.errors) :
       /\ response.errors[k].s = CannotReturnNull("Obj", "b")
       /\ response.errors[k].v = NameKeys(<<"obj", "b">>)

(***************************************************************************)
(* Failing fields.                                                         *)
(***************************************************************************)
\* The round of the root reduce that is next, and its field.
AtRootField == pc = "fields" /\ cursor <= Len(fields)
RootKey == fields[cursor].k
RootNodes == fields[cursor].v
RootFieldDef == getFieldDef(schema, type, RootNodes[1].name)

\* A value found for a field of type T fails by itself: it is an Error, a
\* leaf the type cannot serialize, an object its type's isTypeOf rejects, or
\* a value the abstract type resolves to no possible type.
ValueFails(T, found) ==
  \/ found.t = "error"
  \/ /\ ~isNullish(found)
     /\ \/ isLeafType(T) /\ isNullish(serialize(Head(T), found))
        \/ isObjectType(T) /\ HasIsTypeOf(Head(T))
             /\ ~(found.t = "object" /\ found.s = Head(T))
        \/ isAbstractType(T)
             /\ ~(found.t = "object" /\ isPossibleType(Head(T), found.s))

\* A field fails by itself: its arguments do not coerce, its resolver
\* throws, or the value it resolves to fails.
FieldFails(fieldDef, node, property) ==
  \/ node.arguments = "bad"
  \/ fieldDef.resolve = "fail"
  \/ /\ fieldDef.resolve = NoResolve
     /\ \/ property.t = "function" /\ property.s = "throw"
        \/ ValueFails(Nullable(fieldDef.type), Called(property))

PropertyOf(source, name) ==
  IF source.t = "object" THEN Get(source.v, name) ELSE Undefined

\* What the query of the fault family answers for a root value without
\* faults.
HealthyObject == <<Prop("a", Num(1)), Prop("b", Num(2))>>
HealthyItems == List([i \in 1..MaxItems |-> Num(10 + i)])
HealthyData ==
  << Prop("hello", Num(7)), Prop("must", Num(8)),
     Prop("obj", Object("", HealthyObject)), Prop("req", Object("", HealthyObject)),
     Prop("list", HealthyItems), Prop("strict", HealthyItems),
     Prop("node", Object("", <<Prop("a", Num(1))>>)),
     Prop("pet", Object("", <<Prop("b", Num(2))>>)) >>

IsFaultQuery ==
  document = <<OperationDefinition("query", "", FaultSelections)>>

\* The round of a nullable root field stores its key and goes on to the
\* next sibling, leaving what the siblings before it stored; when the field
\* fails, what it stores is null and one error with its path is appended.
C2_RootStep ==
  (AtRootField /\ RootFieldDef.defined /\ ~isNonNull(RootFieldDef.type)) =>
    /\ pc' = "fields" /\ cursor' = cursor + 1
    /\ Len(results') = Len(results) + 1
    /\ SubSeq(results', 1, Len(results)) = results
    /\ results'[Len(results')].k = RootKey
    /\ FieldFails(RootFieldDef, RootNodes[1], PropertyOf(rootValue, RootNodes[1].name)) =>
         /\ results'[Len(results')].v = Null
         /\ Len(exeContext'.errors) = Len(exeContext.errors) + 1
         /\ SubSeq(exeContext'.errors, 1, Len(exeContext.errors)) = exeContext.errors
         /\ exeContext'.errors[Len(exeContext'.errors)].v = <<NameKey(RootKey)>>

\* In the answer to the fault query every root field and every field of obj
\* whose own source is healthy has the value of the healthy run, whatever
\* failed beside it, and a field of obj that failed is there with null and
\* one error.
C2_Siblings ==
  (Returned_ /\ IsFaultQuery /\ response.data.t = "object") =>
    /\ \A i \in 1..Len(HealthyData) :
         Get(rootValue.v, HealthyData[i].k) = Get(RootValue({}).v, HealthyData[i].k)
           => Get(response.data.v, HealthyData[i].k) = HealthyData[i].v
    /\ Get(response.data.v, "obj").t = "object" =>
         /\ Keys(Get(response.data.v, "obj").v) = <<"a", "b">>
         /\ Get(Get(response.data.v, "obj").v, "b") = Num(2)
         /\ IF ValueFails(Named("Int"), Get(Get(rootValue.v, "obj").v, "a"))
            THEN /\ Get(Get(response.data.v, "obj").v, "a") = Null
                 /\ Cardinality(ErrorsAt(response.errors, NameKeys(<<"obj", "a">>))) = 1
            ELSE /\ Get(Get(response.data.v, "obj").v, "a") = Num(1)
                 /\ ErrorsAt(response.errors, NameKeys(<<"obj", "a">>)) = {}

\* C2: when a field of nullable type fails (its resolver throws, its
\* arguments do not coerce, isTypeOf rejects, the leaf does not serialize,
\* the abstract type does not resolve), its response key is present with
\* null, exactly one error is appended, and every other field of the
\* selection set is still resolved, with the value it has when the failing
\* field succeeds.
C2_NullableFailureIsLocal == [][C2_RootStep]_vars /\ []C2_Siblings

\* hello, of nullable type, threw: its key is there with null, there is one
\* error, and its sibling must has its value.
C2_Witness ==
  /\ Returned_ /\ IsFaultQuery /\ response.data.t = "object"
  /\ Get(rootValue.v, "hello").t = "function"
  /\ HasKey(response.data.v, "hello") /\ Get(response.data.v, "hello") = Null
  /\ Get(response.data.v, "must") = Num(8)
  /\ Len(response.errors) = 1
  /\ response.errors[1].v = NameKeys(<<"hello">>)

\* C3: when a field fails and every position from it up to the root is
\* non-null, data is null and errors holds the failure exactly once; a
\* failure adds one entry to errors, however many non-null ancestors it
\* passes through.
C3_FailureRecordedOnce ==
  Running =>
    /\ Len(exeContext.errors) = failures
    /\ \A i, j \in 1..Len(exeContext.errors) :
         exeContext.errors[i].v = exeContext.errors[j].v => i = j
    /\ \A k \in 1..Len(exeContext.errors) :
         NearestNullable(exeContext.errors[k].v) = 0 =>
           /\ pc \in {"executed", "returned"} /\ data = Null
           /\ k = Len(exeContext.errors)
           /\ Returned_ =>
                /\ response.hasData /\ response.data = Null
                /\ response.hasErrors /\ response.errors = exeContext.errors
    /\ (pc \in {"executed", "returned"} /\ data = Null) =>
         /\ exeContext.errors # <<>>
         /\ NearestNullable(exeContext.errors[Len(exeContext.errors)].v) = 0

\* The null found for req.b passed through Obj.b and Query.req, both
\* non-null: data is null and errors has the one entry.
C3_Witness ==
  /\ Returned_ /\ response.hasData /\ response.data = Null
  /\ Len(response.errors) = 1
  /\ response.errors[1].v = NameKeys(<<"req", "b">>)
  /\ failures = 1

(***************************************************************************)
(* Failures before the first field.                                        *)
(***************************************************************************)
\* The schema has no root type for the operation of the context.
RootTypeFails ==
  LET operation == exeContext.operation.operation IN
  \/ operation = "mutation" /\ schema.mutationType = NoType
  \/ operation = "subscription" /\ schema.subscriptionType = NoType
  \/ operation \notin {"query", "mutation", "subscription"}

\* C4: a failure to find the root type of the operation does not make
\* execute raise: it is answered as the only entry of errors, with data
\* absent or null, and no resolver is called.
C4_RootTypeFailureIsAnswered ==
  (pc \notin {"start", "context"} /\ exeContext # NoContext /\ RootTypeFails) =>
    /\ ExecuteReturned
    /\ response.hasErrors /\ Len(response.errors) = 1
    /\ ~response.hasData \/ response.data = Null
    /\ log = <<>>

\* The operations of the document the operation name selects.
Operations == {i \in 1..Len(document) : document[i].kind = "OperationDefinition"}
Selected ==
  {i \in Operations : operationName = "" \/ document[i].name = operationName}
LastSelected == CHOOSE i \in Selected : \A j \in Selected : j <= i

ArgumentsValid == variableValues.t \in {"undefined", "object"}

\* The document and the operation name give no operation to execute, or
\* its variables do not coerce.
ContextFails ==
  \/ \E i \in 1..Len(document) :
       document[i].kind \notin {"OperationDefinition", "FragmentDefinition"}
  \/ operationName = "" /\ Cardinality(Operations) > 1
  \/ Selected = {}
  \/ /\ Selected # {}
     /\ \E i \in 1..Len(document[LastSelected].variableDefinitions) :
          \/ variableValues.t # "object"
          \/ ~HasKey(variableValues.v, document[LastSelected].variableDefinitions[i])

C6_ErrorsKeyIffErrors ==
  Returned_ =>
    /\ response.hasErrors <=> failures > 0
    /\ response.hasErrors => Len(response.errors) = failures
    /\ ~response.hasErrors => response.errors = <<>>
    /\ failures = 0 =>
         /\ response = Response(FALSE, <<>>, TRUE, data)
         /\ data.t = "object"

\* A run without failures answered with data alone.
C6_Witness ==
  /\ Returned_ /\ failures = 0 /\ log # <<>>
  /\ ~response.hasErrors /\ response.hasData
  /\ response.data.t = "object" /\ response.data.v # <<>>

\* A directive list lets its node through.
Included(directives) ==
  \A i \in 1..Len(directives) :
    /\ ~(directives[i].name = "skip" /\ directives[i].ifArg)
    /\ ~(directives[i].name = "include" /\ ~directives[i].ifArg)

\* A type condition applies to an object type.
Applies(typeCondition, typeName) ==
  \/ typeCondition = ""
  \/ typeCondition = typeName
  \/ isPossibleType(typeCondition, typeName)

FragmentsNamed(name) ==
  {i \in 1..Len(document) :
     document[i].kind = "FragmentDefinition" /\ document[i].name = name}

\* The depth-first, left-to-right walk of a selection set for an object
\* type: its included field nodes in document order, every fragment that
\* applies expanded where it is spread, to a nesting of `depth` spreads.
RECURSIVE Walk(_, _, _)
RECURSIVE Expand(_, _, _)
Walk(selections, typeName, depth) ==
  IF selections = <<>> THEN <<>>
  ELSE Expand(Head(selections), typeName, depth)
         \o Walk(Tail(selections), typeName, depth)

Expand(selection, typeName, depth) ==
  IF ~Included(selection.directives) THEN <<>>
  ELSE CASE selection.kind = "Field" -> <<selection>>
         [] selection.kind = "InlineFragment" ->
              IF Applies(selection.typeCondition, typeName)
              THEN Walk(selection.selectionSet, typeName, depth)
              ELSE <<>>
         [] selection.kind = "FragmentSpread" ->
              IF depth > 0 /\ FragmentsNamed(selection.name) # {}
              THEN IF Applies(document[CHOOSE i \in FragmentsNamed(selection.name) : TRUE].typeCondition, typeName)
                   THEN Walk(document[CHOOSE i \in FragmentsNamed(selection.name) : TRUE].selectionSet,
                             typeName, depth - 1)
                   ELSE <<>>
              ELSE <<>>
         [] OTHER -> <<>>

\* The field nodes of a walk that are the first with their response key,
\* and those of them whose field the type defines.
FirstOccurrences(walk) ==
  SelectSeq([i \in 1..Len(walk) |-> [node |-> walk[i], first |->
               \A j \in 1..(i - 1) :
                 getFieldEntryKey(walk[j]) # getFieldEntryKey(walk[i])]],
            LAMBDA e : e.first)

FirstDefined(walk, typeName) ==
  SelectSeq(FirstOccurrences(walk),
            LAMBDA e : getFieldDef(schema, typeName, e.node.name).defined)

ExpectedKeys(walk, typeName) ==
  [i \in 1..Len(FirstDefined(walk, typeName)) |->
     getFieldEntryKey(FirstDefined(walk, typeName)[i].node)]

RootWalk == Walk(exeContext.operation.selectionSet, type, Len(document))

\* The walk of the sub-selections of the nodes of a walk with one key.
RECURSIVE SubWalk(_, _, _)
SubWalk(walk, key, typeName) ==
  IF walk = <<>> THEN <<>>
  ELSE (IF getFieldEntryKey(Head(walk)) = key
        THEN Walk(Head(walk).selectionSet, typeName, Len(document))
        ELSE <<>>)
       \o SubWalk(Tail(walk), key, typeName)

\* The keys of a completed object, and of the objects in it, are the
\* expected keys of the walk, in its order.
RECURSIVE KeysInWalkOrder(_, _, _)
KeysInWalkOrder(value, walk, typeName) ==
  /\ [i \in 1..Len(value.v) |-> value.v[i].k] = ExpectedKeys(walk, typeName)
  /\ \A i \in 1..Len(value.v) :
       value.v[i].v.t = "object" =>
         KeysInWalkOrder(value.v[i].v,
           SubWalk(walk, value.v[i].k,
             CompletedAs(Nullable(getFieldDef(schema, typeName,
               FirstDefined(walk, typeName)[i].node.name).type))),
           CompletedAs(Nullable(getFieldDef(schema, typeName,
             FirstDefined(walk, typeName)[i].node.name).type)))

\* C7: the keys of every object of the response data are in the order in
\* which each key first occurs in the depth-first, left-to-right walk of
\* the merged selection set, fragments included; a later occurrence of a
\* key does not move it.
C7_KeysInFirstOccurrenceOrder ==
  /\ Running =>
       [i \in 1..Len(fields) |-> fields[i].k] =
         [i \in 1..Len(FirstOccurrences(RootWalk)) |->
            getFieldEntryKey(FirstOccurrences(RootWalk)[i].node)]
  /\ (Returned_ /\ response.hasData /\ response.data.t = "object") =>
       KeysInWalkOrder(response.data, RootWalk, type)

\* hello occurs first, then must, then hello again inside a fragment: the
\* keys are hello, must.
C7_Witness ==
  /\ Returned_ /\ response.hasData /\ response.data.t = "object"
  /\ exeContext.operation.selectionSet =
       <<Field("hello"), InlineFragment("Query", <<Field("must"), Field("hello")>>)>>
  /\ [i \in 1..Len(response.data.v) |-> response.data.v[i].k] = <<"hello", "must">>
  /\ Len(Get(fields, "hello")) = 2

(***************************************************************************)
(* Mutations, lists and unknown fields.                                    *)
(***************************************************************************)
IsMutation == exeContext.operation.operation = "mutation"

\* Where a response key stands in the root grouping.
KeyIndex(key) == CHOOSE i \in 1..Len(fields) : fields[i].k = key

\* The resolver of a logged call writes the store.
Writes(l) == getFieldDef(schema, l.parentType, l.fieldName).resolve \in {"incr", "fail"}

\* C8: the resolvers of the root fields of a mutation are called in the
\* order of the grouping, each root field with the resolvers of its
\* sub-selection through before the resolver of the next is called, and
\* every resolver finds the store as the resolvers called before it left
\* it.
C8_MutationFieldsInOrder ==
  (Running /\ IsMutation) =>
    /\ \A i, j \in 1..Len(log) :
         i < j => KeyIndex(log[i].path[1].s) <= KeyIndex(log[j].path[1].s)
    /\ \A j \in 1..Len(log) :
         /\ KeyIndex(log[j].path[1].s) <= cursor
         /\ pc = "fields" => KeyIndex(log[j].path[1].s) < cursor
         /\ log[j].store = Cardinality({i \in 1..(j - 1) : Writes(log[i])})
    /\ store = Cardinality({i \in 1..Len(log) : Writes(log[i])})
    /\ \A i \in 1..Len(results) :
         /\ KeyIndex(results[i].k) < cursor
         /\ \E j \in 1..Len(log) :
              /\ log[j].path = <<NameKey(results[i].k)>>
              /\ log[j].fieldName = "read" => results[i].v = Num(log[j].store)
              /\ log[j].fieldName = "incr" => results[i].v = Num(log[j].store + 1)

\* The incr under the root field self wrote the store before the resolver
\* of the next root field, read, was called, and read found what it wrote.
C8_Witness ==
  /\ Returned_ /\ IsMutation /\ response.data.t = "object"
  /\ \E i, j \in 1..Len(log) :
       /\ i < j
       /\ log[i].fieldName = "incr" /\ Len(log[i].path) = 2
       /\ log[j].fieldName = "read" /\ Len(log[j].path) = 1
       /\ log[j].store = log[i].store + 1
       /\ Get(response.data.v, log[j].path[1].s) = Num(log[j].store)

\* An item of a list of Int fails by itself.
ItemFails(item) == ValueFails(Named("Int"), item)

ListSelected ==
  /\ type = "Query" /\ HasKey(fields, "list") /\ rootValue.t = "object"
  /\ Get(fields, "list")[1].name = "list"
  /\ Get(rootValue.v, "list").t = "list"

\* C9: a list of nullable items completes to a list of the length and the
\* order of its source; an item that fails is null at its own index, the
\* other items are completed, and every failing item has exactly one error,
\* its path ending in the index.
C9_ListItemFailureIsLocal ==
  (Returned_ /\ response.hasData /\ response.data.t = "object" /\ ListSelected) =>
    LET source == Get(rootValue.v, "list").v
        completed == Get(response.data.v, "list")
    IN /\ completed.t = "list"
       /\ Len(completed.v) = Len(source)
       /\ \A i \in 1..Len(source) :
            IF ItemFails(source[i])
            THEN /\ completed.v[i] = Null
                 /\ Cardinality(ErrorsAt(response.errors,
                      <<NameKey("list"), IndexKey(i - 1)>>)) = 1
            ELSE /\ completed.v[i] = IF isNullish(source[i]) THEN Null ELSE source[i]
                 /\ ErrorsAt(response.errors,
                      <<NameKey("list"), IndexKey(i - 1)>>) = {}
       /\ \A k \in 1..Len(response.errors) :
            (Len(response.errors[k].v) = 2 /\ response.errors[k].v[1] = NameKey("list")) =>
              /\ response.errors[k].v[2].n \in 0..(Len(source) - 1)
              /\ ItemFails(source[response.errors[k].v[2].n + 1])

\* An item failed before one that did not: the list has null at the index
\* of the first and the value of the second.
C9_Witness ==
  /\ Returned_ /\ response.hasData /\ response.data.t = "object" /\ ListSelected
  /\ Get(response.data.v, "list").t = "list"
  /\ \E i, j \in 1..Len(Get(rootValue.v, "list").v) :
       /\ i < j
       /\ ItemFails(Get(rootValue.v, "list").v[i])
       /\ Get(rootValue.v, "list").v[j].t = "number"
       /\ Get(response.data.v, "list").v[i] = Null
       /\ Get(response.data.v, "list").v[j] = Get(rootValue.v, "list").v[j]

\* The type has no field of that name, and the name is no meta-field that
\* applies to it.
NoDefinition(typeName, fieldName) ==
  /\ ~HasKey(getFields(typeName), fieldName)
  /\ fieldName # "__typename"
  /\ ~(fieldName \in {"__schema", "__type"} /\ typeName = schema.queryType)

\* No key of a completed object, or of the objects in it, is the key of a
\* field without definition.
RECURSIVE OnlyDefinedKeys(_, _, _)
OnlyDefinedKeys(value, grouping, typeName) ==
  \A i \in 1..Len(value.v) :
    /\ HasKey(grouping, value.v[i].k)
    /\ ~NoDefinition(typeName, Get(grouping, value.v[i].k)[1].name)
    /\ value.v[i].v.t = "object" =>
         OnlyDefinedKeys(value.v[i].v,
           SubGrouping(Get(grouping, value.v[i].k),
             CompletedAs(Nullable(DeclaredType(typeName, Get(grouping, value.v[i].k))))),
           CompletedAs(Nullable(DeclaredType(typeName, Get(grouping, value.v[i].k)))))

\* C10: for a selected field the parent type does not define, and that is
\* no meta-field applying to it, no resolver is called and no error is
\* recorded, and its key is absent from the result; a query of such fields
\* only answers data = {} without errors.
C10_UnknownFieldIsOmitted ==
  /\ Running =>
       /\ \A i \in 1..Len(fields) :
            NoDefinition(type, fields[i].v[1].name) =>
              /\ ~HasKey(results, fields[i].k)
              /\ \A j \in 1..Len(log) : log[j].path[1] # NameKey(fields[i].k)
              /\ \A k \in 1..Len(exeContext.errors) :
                   exeContext.errors[k].v[1] # NameKey(fields[i].k)
       /\ \A j \in 1..Len(log) : ~NoDefinition(log[j].parentType, log[j].fieldName)
  /\ (Returned_ /\ response.hasData /\ response.data.t = "object") =>
       OnlyDefinedKeys(response.data, fields, type)
  /\ (Returned_ /\ response.hasData /\ fields # <<>>
        /\ \A i \in 1..Len(fields) : NoDefinition(type, fields[i].v[1].name)) =>
       /\ response = Response(FALSE, <<>>, TRUE, Object("", <<>>))
       /\ log = <<>>

\* A query of the one field boyhowdy, which Query does not define,
\* answered data = {}.
C10_Witness ==
  /\ Returned_ /\ type = "Query"
  /\ exeContext.operation.selectionSet = <<Field("boyhowdy")>>
  /\ response = Response(FALSE, <<>>, TRUE, Object("", <<>>))
  /\ log = <<>>

(***************************************************************************)
(* Directives.                                                             *)
(***************************************************************************)
\* The directive of a name on a node that carries at most one of a name.
Carries(directives, name, ifArg) ==
  \E i \in 1..Len(directives) :
    directives[i].name = name /\ directives[i].ifArg = ifArg

CarriesNamed(directives, name) ==
  \E i \in 1..Len(directives) : directives[i].name = name

\* The selections of the operation, once the run has its context.
RootSelections == exeContext.operation.selectionSet

\* The grouping of a root selection set of the operation's document.
GroupingOf(selections) == collectFields(exeContext, type, selections, <<>>, {}).fields

\* A grouping with the directives of its field nodes taken off.
Undirected(grouping) ==
  [i \in 1..Len(grouping) |->
     Prop(grouping[i].k,
          [j \in 1..Len(grouping[i].v) |-> WithDirectives(grouping[i].v[j], <<>>)])]

\* The root selection set with the directives of its first node taken off.
FirstUndirected ==
  <<WithDirectives(RootSelections[1], <<>>)>> \o Tail(RootSelections)

\* C11: shouldIncludeNode answers false for every node that carries a @skip
\* directive whose if is true, whatever @include is on the node (none, if
\* true, if false); the node then adds to the grouping what no node adds.
C11_SkipTrueExcludes ==
  (Running /\ RootSelections # <<>>) =>
    /\ \A i \in 1..Len(RootSelections) :
         Carries(RootSelections[i].directives, "skip", TRUE) =>
           ~shouldIncludeNode(exeContext, RootSelections[i].directives)
    /\ Carries(RootSelections[1].directives, "skip", TRUE) =>
         fields = GroupingOf(Tail(RootSelections))

\* hello carries @skip(if: true) and @include(if: true) and is not in the
\* grouping.
C11_Witness ==
  /\ Running /\ Len(RootSelections) = 2
  /\ RootSelections[1].kind = "Field"
  /\ Carries(RootSelections[1].directives, "skip", TRUE)
  /\ Carries(RootSelections[1].directives, "include", TRUE)
  /\ ~HasKey(fields, "hello") /\ HasKey(fields, "must")

\* C12: a node that @skip does not exclude (no @skip, or its if not true)
\* and that carries @include is included exactly when the if of @include is
\* true: @skip(if: false) with @include(if: false) excludes; a node with
\* neither directive is included.  An included node adds to the grouping
\* what it adds without its directives.
C12_IncludeDecidesWhenNotSkipped ==
  (Running /\ RootSelections # <<>>) =>
    /\ \A i \in 1..Len(RootSelections) :
         LET directives == RootSelections[i].directives IN
         /\ (~Carries(directives, "skip", TRUE) /\ CarriesNamed(directives, "include")) =>
              (shouldIncludeNode(exeContext, directives)
                 <=> Carries(directives, "include", TRUE))
         /\ (~CarriesNamed(directives, "skip") /\ ~CarriesNamed(directives, "include")) =>
              shouldIncludeNode(exeContext, directives)
    /\ (~Carries(RootSelections[1].directives, "skip", TRUE)
          /\ Carries(RootSelections[1].directives, "include", FALSE)) =>
         fields = GroupingOf(Tail(RootSelections))
    /\ (~Carries(RootSelections[1].directives, "skip", TRUE)
          /\ ~Carries(RootSelections[1].directives, "include", FALSE)) =>
         Undirected(fields) = Undirected(GroupingOf(FirstUndirected))

\* hello carries @skip(if: false) and @include(if: false) and is not in the
\* grouping.
C12_Witness ==
  /\ Running /\ Len(RootSelections) = 2
  /\ RootSelections[1].kind = "Field"
  /\ Carries(RootSelections[1].directives, "skip", FALSE)
  /\ Carries(RootSelections[1].directives, "include", FALSE)
  /\ ~HasKey(fields, "hello") /\ HasKey(fields, "must")

(***************************************************************************)
(* The operation to execute, and the entry point.                          *)
(***************************************************************************)
\* The second operation definition of the document.
SecondOperation ==
  CHOOSE i \in Operations : Cardinality({j \in Operations : j < i}) = 1

MustProvideOperationName ==
  Error("Must provide operation name if query contains multiple operations.")

\* C13: without an operation name, a document with more than one operation
\* definition, named or not, anywhere among its fragment definitions, makes
\* buildExecutionContext fail with "Must provide operation name if query
\* contains multiple operations.", and no resolver is called.
C13_SeveralOperationsNeedName ==
  ( /\ ExecuteCalled /\ ArgumentsValid
    /\ operationName = "" /\ Cardinality(Operations) > 1
    /\ \A j \in 1..SecondOperation :
         document[j].kind \in {"OperationDefinition", "FragmentDefinition"} ) =>
    /\ ExecuteReturned
    /\ response = Response(TRUE, <<MustProvideOperationName>>, FALSE, Undefined)
    /\ exeContext = NoContext
    /\ log = <<>> /\ store = 0

\* Two operations, one named and one not, with a fragment definition
\* between them.
C13_Witness ==
  /\ Returned_ /\ operationName = "" /\ Len(document) = 3
  /\ Operations = {1, 3} /\ document[2].kind = "FragmentDefinition"
  /\ document[1].name # document[3].name
  /\ response.errors = <<MustProvideOperationName>>
  /\ log = <<>>

\* C14: graphql() never raises and never executes an invalid request: when
\* parse throws or validate reports an error it returns a result with
\* errors only, execute is not called and no resolver is called; what
\* execute raises is caught and returned as {errors: [error]}, what it
\* returns is returned.
C14_GraphqlNeverRaises ==
  request.graphql =>
    /\ pc \in {"returned", "raised"} => ENABLED GraphqlReturn
    /\ pc = "graphql" => ENABLED GraphqlRequest
    /\ (request.syntaxError \/ Len(request.validationErrors) > 0) =>
         /\ pc \in {"graphql", "rejected"}
         /\ exeContext = NoContext /\ response = NoResponse /\ raised = Undefined
         /\ log = <<>> /\ store = 0 /\ failures = 0
    /\ pc = "rejected" =>
         /\ result.hasErrors /\ ~result.hasData /\ Len(result.errors) >= 1
         /\ ~request.syntaxError => result.errors = request.validationErrors
    /\ pc = "answered" =>
         IF raised # Undefined
         THEN result = Response(TRUE, <<raised>>, FALSE, Undefined)
         ELSE result = response /\ response # NoResponse
    /\ pc \notin {"rejected", "answered"} => result = NoResponse

\* execute raised for a document that holds a schema definition, and
\* graphql() returned the error.
C14_Witness ==
  /\ request.graphql /\ pc = "answered"
  /\ raised = Error("GraphQL cannot execute a request containing a SchemaDefinition.")
  /\ result = Response(TRUE, <<raised>>, FALSE, Undefined)
  /\ log = <<>>

\* execute returned data and an error for a mutation whose second field
\* failed, and graphql() returned that response.
C14_Returned ==
  /\ request.graphql /\ pc = "answered" /\ raised = Undefined
  /\ result = response /\ result.hasData /\ result.hasErrors /\ Len(log) = 2

\* The place of the key p[n] among its siblings: the index of an item in
\* its list, the place of a response key in the grouping it belongs to.
Rank(p, n) ==
  IF p[n].n >= 0 THEN p[n].n + 1
  ELSE LET grouping ==
             IF n = 1 THEN fields
             ELSE LET up == PositionAt(p, n - 1) IN
                  SubGrouping(up.nodes, CompletedAs(Nullable(up.T)))
       IN CHOOSE i \in 1..Len(grouping) : grouping[i].k = p[n].s

\* Position p is completed before position q in a depth-first, left to
\* right execution: where they part, p takes the earlier sibling; a
\* position inside q's subtree is completed before q itself is.
CompletedBefore(p, q) ==
  LET parting == {n \in 1..Len(p) : n > Len(q) \/ p[n] # q[n]} IN
  /\ parting # {}
  /\ LET n == CHOOSE m \in parting : \A l \in parting : m <= l IN
     n > Len(q) \/ Rank(p, n) < Rank(q, n)

\* C15: the errors of a response stand in depth-first, left-to-right
\* completion order: of two recorded errors the earlier one belongs to the
\* position completed first, so every error of a sibling subtree precedes
\* the errors of the siblings after it, and an error inside a field's
\* subtree precedes one recorded for the field itself.
C15_ErrorsInCompletionOrder ==
  Running =>
    \A i \in 1..Len(exeContext.errors) : \A j \in 1..Len(exeContext.errors) :
      i < j => CompletedBefore(exeContext.errors[i].v, exeContext.errors[j].v)

\* Two errors next to each other that belong to two fields of the same
\* object, the second one recorded after the first field's was.
C15_Witness ==
  /\ pc = "returned" /\ Len(response.errors) >= 2
  /\ \E i \in 1..(Len(response.errors) - 1) :
       /\ Len(response.errors[i].v) = 2
       /\ Len(response.errors[i + 1].v) = 2
       /\ response.errors[i].v[1] = response.errors[i + 1].v[1]
       /\ response.errors[i].v[2].n < 0
       /\ response.errors[i].v[2] # response.errors[i + 1].v[2]

IsPrefix(a, b) == Len(a) <= Len(b) /\ SubSeq(b, 1, Len(a)) = a

\* A step of execute after buildExecutionContext returned: the context
\* changes in its error list only, and the list only grows at its end.
C16_ContextStep ==
  exeContext # NoContext =>
    /\ exeContext' = [exeContext EXCEPT !.errors = exeContext'.errors]
    /\ IsPrefix(exeContext.errors, exeContext'.errors)

\* The context holds what execute was given and what buildExecutionContext
\* found, and the errors of the response are the context's.
C16_ContextKept ==
  (exeContext # NoContext /\ ~request.graphql) =>
    /\ exeContext.schema = schema
    /\ exeContext.rootValue = rootValue
    /\ exeContext.contextValue = contextValue
    /\ exeContext = [buildExecutionContext(schema, document, rootValue, contextValue,
                       variableValues, operationName, "").val
                     EXCEPT !.errors = exeContext.errors]
    /\ ExecuteReturned => response.errors = exeContext.errors

\* C16: from the return of buildExecutionContext to the return of execute
\* only the error list of the context changes, and it is only appended to:
\* schema, fragments, rootValue, contextValue, operation, variableValues and
\* fieldResolver keep their values, and a recorded error is never removed or
\* reordered, also when an ancestor of its position is nulled later.
C16_OnlyErrorsAppended == [][C16_ContextStep]_vars /\ []C16_ContextKept

\* An error was recorded at a nullable field, and a later root field's
\* failure then nulled the data: both errors are in the list.
C16_Witness ==
  /\ pc = "returned" /\ response.hasData /\ response.data = Null
  /\ Len(exeContext.errors) >= 2
  /\ NearestNullable(exeContext.errors[1].v) > 0
  /\ NearestNullable(exeContext.errors[Len(exeContext.errors)].v) = 0

\* The keys p[1..n] lead, outermost first, from the root selection set to a
\* position of the response: a response key of the grouping at each object
\* level, an index at each list level.
RECURSIVE IsPosition(_, _)
IsPosition(p, n) ==
  IF n = 1 THEN p[1].n < 0 /\ HasKey(fields, p[1].s)
  ELSE /\ IsPosition(p, n - 1)
       /\ LET up == PositionAt(p, n - 1) IN
          IF p[n].n >= 0
          THEN isList(Nullable(up.T)) /\ p[n].n < MaxItems
          ELSE /\ isObjectType(Nullable(up.T)) \/ isAbstractType(Nullable(up.T))
               /\ HasKey(SubGrouping(up.nodes, CompletedAs(Nullable(up.T))), p[n].s)

\* The path addPath builds from `undefined` with the keys p[1], ..., p[n].
RECURSIVE PathOf(_, _)
PathOf(p, n) == IF n = 0 THEN <<>> ELSE addPath(PathOf(p, n - 1), p[n])

\* The array p is what responsePathAsArray answers for the path addPath
\* built along a position, each extension holding the path it extended.
IsResponsePath(p) ==
  /\ Len(p) >= 1
  /\ IsPosition(p, Len(p))
  /\ \A n \in 1..Len(p) :
       /\ responsePathAsArray(PathOf(p, n)) = SubSeq(p, 1, n)
       /\ Tail(PathOf(p, n)) = PathOf(p, n - 1)
       /\ responsePathAsArray(Tail(PathOf(p, n))) = SubSeq(p, 1, n - 1)

\* C17: addPath leaves the path it extends as it was, responsePathAsArray
\* of the path built with k1, ..., kn is [k1, ..., kn], outermost first, and
\* so the path given to locatedError, like the one a resolver is told, is
\* the sequence of response keys and list indices from the root to the
\* position.
C17_PathsAreRootFirst ==
  Running =>
    /\ \A k \in 1..Len(exeContext.errors) : IsResponsePath(exeContext.errors[k].v)
    /\ \A k \in 1..Len(log) :
         /\ IsResponsePath(log[k].path)
         /\ LET at == PositionAt(log[k].path, Len(log[k].path)) IN
            /\ at.nodes[1].name = log[k].fieldName
            /\ \/ at.parentType = log[k].parentType
               \/ /\ Len(log[k].path) >= 2
                  /\ isPossibleType(
                       Head(Nullable(PositionAt(log[k].path, Len(log[k].path) - 1).T)),
                       log[k].parentType)

\* An error located at an item of a list and a resolver called for a field
\* of an object, both two keys below the root.
C17_Witness ==
  /\ pc = "returned"
  /\ \E k \in 1..Len(response.errors) :
       /\ Len(response.errors[k].v) = 2
       /\ response.errors[k].v[1].n < 0
       /\ response.errors[k].v[2].n >= 1
  /\ \E k \in 1..Len(log) :
       /\ Len(log[k].path) = 2
       /\ log[k].path[2].n < 0

\* The root selection set is a fragment spread followed by one selection.
SpreadFirst ==
  /\ Running
  /\ Len(RootSelections) = 2
  /\ RootSelections[1].kind = "FragmentSpread"

\* What a pass over the selection after the spread collects when it starts
\* with the names `visited` marked.
CollectedAfter(visited) ==
  collectFields(exeContext, type, <<RootSelections[2]>>, <<>>, visited)

\* The pass over the spread alone.
CollectedFirst == collectFields(exeContext, type, <<RootSelections[1]>>, <<>>, {})

\* C18 as stated: a spread marks its fragment visited before its directives
\* are evaluated, so after a spread of F that its directives exclude every
\* later spread of F in the same pass is skipped and contributes no field.
C18_ExcludedSpreadMarksVisited ==
  (SpreadFirst /\ ~Included(RootSelections[1].directives)) =>
    /\ RootSelections[1].name \in CollectedFirst.visitedFragmentNames
    /\ Undirected(fields) = Undirected(CollectedAfter({RootSelections[1].name}).fields)

\* C18, amended: a spread marks its fragment visited after its directives
\* were evaluated and only when they include it.  A spread of F that its
\* directives exclude leaves F unvisited, and the selections after it are
\* collected as if it were not there: a later included spread of F is
\* expanded.  After an included spread of F, F is visited and a later
\* spread of F contributes nothing.
C18_ExcludedSpreadLeavesUnvisited ==
  SpreadFirst =>
    IF Included(RootSelections[1].directives)
    THEN /\ RootSelections[1].name \in CollectedFirst.visitedFragmentNames
         /\ RootSelections[2] = FragmentSpread(RootSelections[1].name)
              => fields = CollectedFirst.fields
    ELSE /\ CollectedFirst.visitedFragmentNames = {}
         /\ CollectedFirst.fields = <<>>
         /\ Undirected(fields) = Undirected(CollectedAfter({}).fields)

\* An excluded spread of G is followed by a spread of G, and the fields of
\* G, with those of F that G spreads, are collected.
C18_Witness ==
  /\ SpreadFirst
  /\ ~Included(RootSelections[1].directives)
  /\ RootSelections[2] = FragmentSpread(RootSelections[1].name)
  /\ Keys(fields) = <<"hello", "list">>
  /\ pc = "returned" /\ HasKey(response.data.v, "hello")

\* The field nodes that stand in a selection set itself, those inside its
\* inline fragments included; fragment spreads are not followed.
RECURSIVE DirectNodes(_)
DirectNodes(selections) ==
  IF selections = <<>> THEN <<>>
  ELSE LET selection == Head(selections) IN
       (CASE selection.kind = "Field" -> <<selection>>
          [] selection.kind = "InlineFragment" -> DirectNodes(selection.selectionSet)
          [] OTHER -> <<>>)
       \o DirectNodes(Tail(selections))

\* The field nodes of the fragments from the i-th on.
RECURSIVE FragmentNodes(_, _)
FragmentNodes(fragments, i) ==
  IF i > Len(fragments) THEN <<>>
  ELSE DirectNodes(fragments[i].v.selectionSet) \o FragmentNodes(fragments, i + 1)

\* The field nodes of a grouping, entry after entry.
RECURSIVE CollectedNodes(_, _)
CollectedNodes(grouping, i) ==
  IF i > Len(grouping) THEN <<>>
  ELSE grouping[i].v \o CollectedNodes(grouping, i + 1)

CountIn(nodes, node) == Cardinality({i \in 1..Len(nodes) : nodes[i] = node})

\* The root type of the operation of a built context, and the pass of
\* collectFields over the operation's selection set.
RootType == getOperationRootType(exeContext.schema, exeContext.operation)
RootPass == collectFields(exeContext, RootType.val, RootSelections, <<>>, {})

\* The field nodes that stand in the root selection set and in the fragment
\* definitions, each taken once.
Standing == DirectNodes(RootSelections) \o FragmentNodes(exeContext.fragments, 1)

\* C19: collectFields terminates for every finite document, also when the
\* named fragments spread each other in a cycle or a fragment spreads
\* itself: for every built context the pass over the operation's selection
\* set returns, with the grouping execute goes on with; and within the pass
\* the selection set of a named fragment is expanded at most once: no field
\* node is collected more often than it stands in the root selection set and
\* in the fragment definitions, and only defined or spread names are marked.
C19_CollectFieldsTerminates ==
  (exeContext # NoContext /\ ~RootType.thrown) =>
    /\ \A i \in 1..Len(CollectedNodes(RootPass.fields, 1)) :
         CountIn(CollectedNodes(RootPass.fields, 1), CollectedNodes(RootPass.fields, 1)[i])
           <= CountIn(Standing, CollectedNodes(RootPass.fields, 1)[i])
    /\ Cardinality(RootPass.visitedFragmentNames) <= Len(exeContext.fragments) + Len(RootSelections)
    /\ Running => fields = RootPass.fields

\* F and G, which spread each other, are both spread by the operation, or
\* the fragment that spreads itself is: their fields were collected once.
C19_Witness ==
  /\ pc = "returned"
  /\ \/ /\ RootSelections = <<FragmentSpread("G"), FragmentSpread("F")>>
        /\ fields = <<Prop("hello", <<Field("hello")>>), Prop("list", <<Field("list")>>)>>
     \/ /\ RootSelections = <<FragmentSpread("G"), FragmentSpread("S")>>
        /\ Get(fields, "must") = <<Field("must")>>

\* An item of a list of Int! fails: it is null, or it fails by itself.
StrictItemFails(item) == isNullish(item) \/ ItemFails(item)

StrictSelected ==
  /\ type = "Query" /\ HasKey(fields, "strict")
  /\ Get(fields, "strict")[1].name = "strict"
  /\ Get(rootValue.v, "strict").t = "list"

StrictItems == Get(rootValue.v, "strict").v

\* The first item of strict that fails (1-based); 0 when none does.
FirstFailing ==
  IF \E i \in 1..Len(StrictItems) : StrictItemFails(StrictItems[i])
  THEN CHOOSE i \in 1..Len(StrictItems) :
         /\ StrictItemFails(StrictItems[i])
         /\ \A j \in 1..(i - 1) : ~StrictItemFails(StrictItems[j])
  ELSE 0

\* C20: in a list whose item type is non-null an item that fails or is null
\* is not replaced by null: the failure leaves completeListValue and the
\* list position, which is nullable here, is null; exactly one error is
\* recorded, at the index of the first failing item, and no item after it
\* is completed: no failure is raised for a later item.
C20_NonNullItemFailureLeavesList ==
  (Returned_ /\ response.hasData /\ response.data.t = "object" /\ StrictSelected) =>
    IF FirstFailing = 0
    THEN /\ Get(response.data.v, "strict") = List(StrictItems)
         /\ \A k \in 1..Len(response.errors) : response.errors[k].v[1] # NameKey("strict")
    ELSE /\ Get(response.data.v, "strict") = Null
         /\ {k \in 1..Len(response.errors) : response.errors[k].v[1] = NameKey("strict")}
              = ErrorsAt(response.errors, <<NameKey("strict"), IndexKey(FirstFailing - 1)>>)
         /\ Cardinality(ErrorsAt(response.errors,
              <<NameKey("strict"), IndexKey(FirstFailing - 1)>>)) = 1
         /\ failures = Len(response.errors)

\* The first item of strict is null and a later one would fail as well: the
\* list is null and the one error is the first item's.
C20_Witness ==
  /\ Returned_ /\ response.hasData /\ response.data.t = "object" /\ StrictSelected
  /\ FirstFailing = 1
  /\ \E j \in 2..Len(StrictItems) : StrictItemFails(StrictItems[j])
  /\ Get(response.data.v, "strict") = Null
  /\ response.errors = <<Val("error", 1, CannotReturnNull("Query", "strict"),
                             <<NameKey("strict"), IndexKey(0)>>)>>

\* The failure recorded with path p left the selection set of its n-th key:
\* that key names a field, and the positions from it down to the failing
\* one are all non-null.
LeftSelectionSet(p, n) ==
  /\ n \in 1..Len(p)
  /\ p[n].n < 0
  /\ n > NearestNullable(p)

\* A resolver was called for a field that stands after the n-th key of p in
\* the selection set of that key, or for a field below such a field.
CalledAfter(p, n) ==
  \E k \in 1..Len(log) :
    /\ Len(log[k].path) >= n
    /\ SubSeq(log[k].path, 1, n - 1) = SubSeq(p, 1, n - 1)
    /\ log[k].path[n].n < 0
    /\ Rank(log[k].path, n) > Rank(p, n)

\* C21: when the failure of a non-null field propagates out of a selection
\* set, no resolver of a field that comes later in the grouping of that
\* selection set is called; a failure that leaves the root selection set
\* ends the root reduce at its field, in a mutation as in a query, and the
\* data is null.
C21_NothingResolvedAfterPropagation ==
  Running =>
    \A k \in 1..Len(exeContext.errors) :
      LET p == exeContext.errors[k].v IN
      /\ \A n \in 1..Len(p) : LeftSelectionSet(p, n) => ~CalledAfter(p, n)
      /\ NearestNullable(p) = 0 =>
           /\ pc \in {"executed", "returned"}
           /\ data = Null
           /\ cursor = Rank(p, 1)
           /\ k = Len(exeContext.errors)

\* In a mutation the non-null field crash failed inside self, before incr:
\* incr was not called there, self is null, and the root field after self
\* was executed.
C21_Witness ==
  /\ pc = "returned" /\ IsMutation
  /\ Keys(fields) = <<"self", "incr">>
  /\ Len(response.errors) = 1
  /\ response.errors[1].v = <<NameKey("self"), NameKey("crash")>>
  /\ [i \in 1..Len(log) |-> log[i].path]
       = << <<NameKey("self")>>, <<NameKey("self"), NameKey("crash")>>,
            <<NameKey("incr")>> >>
  /\ response.data = Object("", <<Prop("self", Null), Prop("incr", Num(2))>>)

\* The value whose properties throw the Errors that the properties of
\* `value` hold or return; the items of a list stay what they are.
RECURSIVE Throwing(_)
Throwing(value) ==
  CASE value.t = "error" -> Function("throw", value)
    [] value.t = "function" /\ value.s = "return" /\ value.v[1].t = "error" ->
         Function("throw", value.v[1])
    [] value.t = "object" ->
         Object(value.s, [i \in 1..Len(value.v) |->
                            Prop(value.v[i].k, Throwing(value.v[i].v))])
    [] OTHER -> value

\* A property of the value, or of an object in it, holds or returns an Error.
RECURSIVE ReturnsError(_)
ReturnsError(value) ==
  \/ value.t = "error"
  \/ value.t = "function" /\ value.s = "return" /\ value.v[1].t = "error"
  \/ value.t = "object" /\ \E i \in 1..Len(value.v) : ReturnsError(value.v[i].v)

\* The operation executed on the root value whose resolvers throw.
ThrowingRun ==
  executeFields(exeContext, type, Throwing(rootValue), <<>>, fields,
                [errors |-> <<>>, log |-> <<>>, store |-> 0, failures |-> 0])

ThrowingResponse ==
  IF ThrowingRun.thrown
  THEN Response(TRUE, Append(ThrowingRun.st.errors, ThrowingRun.val), TRUE, Null)
  ELSE IF Len(ThrowingRun.st.errors) = 0
  THEN Response(FALSE, <<>>, TRUE, ThrowingRun.val)
  ELSE Response(TRUE, ThrowingRun.st.errors, TRUE, ThrowingRun.val)

\* C22: a resolver that returns an Error without throwing gives the same
\* data and the same errors as one that throws that Error: the Error is
\* raised again by completeValue before the declared type is looked at,
\* non-null and list types included, so the recorded error is the Error
\* returned, at the field's path; and an Error that is an item of a list is
\* the failure of that item.
C22_ReturnedErrorIsThrownError ==
  (Returned_ /\ response.hasData /\ type = "Query" /\ rootValue.t = "object") =>
    /\ response = ThrowingResponse
    /\ \A i \in 1..Len(Keys(fields)) :
         LET property == Get(rootValue.v, Get(fields, Keys(fields)[i])[1].name) IN
         /\ ((property.t = "error" \/ (property.t = "function" /\ property.s = "return"
                                        /\ property.v[1].t = "error"))
              /\ getFieldDef(schema, type, Get(fields, Keys(fields)[i])[1].name).defined
              /\ response.data.t = "object") =>
              \E k \in 1..Len(response.errors) :
                /\ response.errors[k].v = <<NameKey(Keys(fields)[i])>>
                /\ response.errors[k].s = Called(property).s
         /\ (property.t = "list" /\ response.data.t = "object") =>
              \A j \in 1..Len(property.v) :
                property.v[j].t = "error" =>
                  \E k \in 1..Len(response.errors) :
                    /\ response.errors[k].v = <<NameKey(Keys(fields)[i]), IndexKey(j - 1)>>
                    /\ response.errors[k].s = property.v[j].s

\* The list field returned an Error: it is recorded at the field, with its
\* own message, and the field is null.
C22_Witness ==
  /\ Returned_ /\ response.hasData /\ response.data.t = "object" /\ type = "Query"
  /\ rootValue.t = "object"
  /\ Get(rootValue.v, "list") = Error("returned")
  /\ HasKey(fields, "list")
  /\ Get(response.data.v, "list") = Null
  /\ response.errors = <<Val("error", 1, "returned", <<NameKey("list")>>)>>

\* What the resolver of root key i answers from the root value, and the
\* declared type of the field.
RootFound(i) == Called(Get(rootValue.v, Get(fields, Keys(fields)[i])[1].name))
RootDeclared(i) == DeclaredType(type, Get(fields, Keys(fields)[i]))

ExpectedAValueOfType(T, found) ==
  "Expected a value of type \"" \o Head(T) \o "\" but received: " \o ToStringJS(found)

\* The leaf type T does not serialize what was found, which is a value.
Unserializable(T, found) ==
  /\ isLeafType(T)
  /\ ~isNullish(found) /\ found.t \notin {"error", "function"}
  /\ isNullish(serialize(Head(T), found))

CalledBelow(key) ==
  {k \in 1..Len(log) : Len(log[k].path) >= 2 /\ log[k].path[1] = NameKey(key)}

\* The object type the schema gives for a value of the abstract type: the
\* type its class names (Node, by resolveType and schema lookup) or the
\* first possible type whose isTypeOf accepts it (Pet, by default); NoType
\* when there is none, or when it is no object type or not a possible type.
RuntimeTypeOf(abstractName, found) ==
  IF found.t = "object" /\ found.s \in ObjectTypes
     /\ isPossibleType(abstractName, found.s)
  THEN found.s ELSE NoType

\* C24: the sub-selections of a value of abstract type are executed only
\* against an object type that the schema reports as a possible type of the
\* abstract type; when resolveType, or the default strategy, answers
\* nothing, a type that is no object type, an unknown name or an impossible
\* type, completion fails with an error at the field and no resolver of a
\* sub-field is called.
C24_AbstractNeedsPossibleObjectType ==
  (Returned_ /\ response.hasData /\ response.data.t = "object" /\ type = "Query"
     /\ rootValue.t = "object") =>
    \A i \in 1..Len(Keys(fields)) :
      LET key == Keys(fields)[i] IN
      (getFieldDef(schema, type, Get(fields, key)[1].name).defined
         /\ isAbstractType(RootDeclared(i)) /\ ~isNullish(RootFound(i))
         /\ RootFound(i).t \notin {"error", "function"}) =>
        LET runtime == RuntimeTypeOf(Head(RootDeclared(i)), RootFound(i)) IN
        IF runtime = NoType
        THEN /\ Get(response.data.v, key) = Null
             /\ Cardinality(ErrorsAt(response.errors, <<NameKey(key)>>)) = 1
             /\ CalledBelow(key) = {}
        ELSE /\ Get(response.data.v, key).t = "object"
             /\ ErrorsAt(response.errors, <<NameKey(key)>>) = {}
             /\ CalledBelow(key) # {}
             /\ \A k \in CalledBelow(key) :
                  /\ log[k].parentType = runtime
                  /\ log[k].parentType \in ObjectTypes
                  /\ isPossibleType(Head(RootDeclared(i)), log[k].parentType)

\* The interface field resolved to an object type that is not one of its
\* possible types and the union field to one that is: the first is null with
\* its error and nothing was resolved below it, the second was executed
\* against its type.
C24_Witness ==
  /\ Returned_ /\ response.hasData /\ response.data.t = "object" /\ type = "Query"
  /\ rootValue.t = "object" /\ HasKey(fields, "node") /\ HasKey(fields, "pet")
  /\ Get(rootValue.v, "node").s = "Other" /\ Get(rootValue.v, "pet").s = "Obj"
  /\ Get(response.data.v, "node") = Null
  /\ response.errors
       = <<Val("error", 1, "Runtime Object type \"Other\" is not a possible type for \"Node\".",
               <<NameKey("node")>>)>>
  /\ CalledBelow("node") = {}
  /\ Get(response.data.v, "pet") = Object("", <<Prop("b", Num(2))>>)
  /\ \E k \in CalledBelow("pet") : log[k].parentType = "Obj"

\* The numbers of a completed object are the ones its source holds or
\* returns under the names of the fields.
NumbersFrom(completed, source, nodes, typeName) ==
  \A j \in 1..Len(completed.v) :
    completed.v[j].v.t = "number" =>
      completed.v[j].v
        = Called(Get(source.v, Get(SubGrouping(nodes, typeName), completed.v[j].k)[1].name))

\* C25: when an object type declares isTypeOf and it answers false for the
\* result, completion fails with 'Expected value of type ... but got ...'
\* before the sub-selections are collected: no resolver of a sub-field is
\* called for the value.  When the type declares no isTypeOf, or it accepts
\* the result, the sub-selections are executed with the result as source.
C25_IsTypeOfGuardsSubfields ==
  (Returned_ /\ response.hasData /\ response.data.t = "object" /\ type = "Query"
     /\ rootValue.t = "object") =>
    \A i \in 1..Len(Keys(fields)) :
      LET key == Keys(fields)[i] IN
      (getFieldDef(schema, type, Get(fields, key)[1].name).defined
         /\ isObjectType(Nullable(RootDeclared(i))) /\ RootFound(i).t = "object") =>
        LET typeName == Head(Nullable(RootDeclared(i))) IN
        IF HasIsTypeOf(typeName) /\ ~isTypeOf(typeName, RootFound(i))
        THEN /\ Get(response.data.v, key) = Null
             /\ \E k \in 1..Len(response.errors) :
                  response.errors[k]
                    = Val("error", 1,
                          "Expected value of type \"" \o typeName \o "\" but got: "
                            \o ToStringJS(RootFound(i)) \o ".",
                          <<NameKey(key)>>)
             /\ CalledBelow(key) = {}
        ELSE /\ ErrorsAt(response.errors, <<NameKey(key)>>) = {}
             /\ Len(SubGrouping(Get(fields, key), typeName)) > 0 => CalledBelow(key) # {}
             /\ \A k \in CalledBelow(key) : log[k].parentType = typeName
             /\ Get(response.data.v, key).t = "object" =>
                  NumbersFrom(Get(response.data.v, key), RootFound(i),
                              Get(fields, key), typeName)

\* obj holds a value that the isTypeOf of Obj refuses: it is null with the
\* error and no field of it was resolved, while the fields of req, which
\* isTypeOf accepts, were.
C25_Witness ==
  /\ Returned_ /\ response.hasData /\ response.data.t = "object" /\ type = "Query"
  /\ rootValue.t = "object"
  /\ HasKey(fields, "obj") /\ Get(rootValue.v, "obj").s = "Other"
  /\ Get(response.data.v, "obj") = Null
  /\ CalledBelow("obj") = {}
  /\ response.errors
       = <<Val("error", 1, "Expected value of type \"Obj\" but got: [object].",
               <<NameKey("obj")>>)>>
  /\ CalledBelow("req") # {}

\* plain, whose type declares no isTypeOf, holds a value of another class and
\* its fields were resolved from it.
C25_PlainExecuted ==
  /\ Returned_ /\ HasKey(fields, "plain") /\ Get(rootValue.v, "plain").s = "Other"
  /\ Get(response.data.v, "plain") = Object("", <<Prop("a", Num(1)), Prop("b", Num(2))>>)

\* The selection sets of the nodes, one after the other.
RECURSIVE SelectionSetsOf(_, _)
SelectionSetsOf(fieldNodes, i) ==
  IF i > Len(fieldNodes) THEN <<>>
  ELSE (IF fieldNodes[i].hasSelectionSet THEN fieldNodes[i].selectionSet ELSE <<>>)
         \o SelectionSetsOf(fieldNodes, i + 1)

\* The merge of the nodes' selection sets: one grouping and one set of
\* visited fragments over the selections of all the nodes in node order.
Merged(fieldNodes, typeName) ==
  collectFields(exeContext, typeName, SelectionSetsOf(fieldNodes, 1), <<>>, {}).fields

\* The response keys of a grouping whose first node names a field of the type.
RECURSIVE DefinedKeys(_, _, _)
DefinedKeys(grouping, typeName, i) ==
  IF i > Len(grouping) THEN <<>>
  ELSE (IF getFieldDef(schema, typeName, grouping[i].v[1].name).defined
        THEN <<grouping[i].k>> ELSE <<>>)
         \o DefinedKeys(grouping, typeName, i + 1)

CalledAt(p) == {k \in 1..Len(log) : log[k].path = p}

\* C26: for a response key with several merged field nodes the resolver is
\* called exactly once per parent value, with the name and the arguments of
\* the first node only; the sub-selection executed on its object result is
\* the merge of the selection sets of all the nodes in node order, collected
\* with one grouping and one visited-fragment set for those nodes, made anew
\* for each value.
C26_MergedNodesResolveOnce ==
  (Returned_ /\ response.hasData /\ response.data.t = "object" /\ type = "Query"
     /\ rootValue.t = "object") =>
    /\ \A j, k \in 1..Len(log) : log[j].path = log[k].path => j = k
    /\ \A i \in 1..Len(Keys(fields)) :
         LET key == Keys(fields)[i]
             nodes == Get(fields, key)
         IN
         getFieldDef(schema, type, nodes[1].name).defined =>
           /\ IF nodes[1].arguments = "bad"
              THEN /\ CalledAt(<<NameKey(key)>>) = {}
                   /\ Get(response.data.v, key) = Null
                   /\ \E k \in 1..Len(response.errors) :
                        response.errors[k]
                          = Val("error", 1, "Argument has invalid value.",
                                <<NameKey(key)>>)
              ELSE /\ Cardinality(CalledAt(<<NameKey(key)>>)) = 1
                   /\ \A k \in CalledAt(<<NameKey(key)>>) :
                        log[k].fieldName = nodes[1].name
                   /\ \A k \in 1..Len(response.errors) :
                        response.errors[k].v = <<NameKey(key)>> =>
                          response.errors[k].s # "Argument has invalid value."
           /\ (isObjectType(Nullable(DeclaredType(type, nodes)))
                 /\ Get(response.data.v, key).t = "object") =>
                LET typeName == Head(Nullable(DeclaredType(type, nodes))) IN
                /\ SubGrouping(nodes, typeName) = Merged(nodes, typeName)
                /\ Keys(Get(response.data.v, key).v)
                     = DefinedKeys(Merged(nodes, typeName), typeName, 1)

\* Two nodes answer to obj, the first named req, and both of the second's
\* kind spread O: req was resolved once, and the object holds b and a, a
\* collected from one spread only.  hello is made of a node named must and
\* a node with bad arguments: must was resolved.
C26_Witness ==
  /\ Returned_ /\ response.hasData /\ response.data.t = "object"
  /\ \E key \in {"obj", "hello"} :
       /\ HasKey(fields, key) /\ Len(Get(fields, key)) > 1
       /\ Get(fields, key)[1].name # key
       /\ \E k \in 1..Len(log) :
            log[k].path = <<NameKey(key)>> /\ log[k].fieldName = Get(fields, key)[1].name
       /\ key = "obj" =>
            /\ Get(response.data.v, "obj") = Object("", <<Prop("b", Num(2)), Prop("a", Num(1))>>)
            /\ Len(Get(SubGrouping(Get(fields, "obj"), "Obj"), "a")) = 1

\* Both nodes of obj spread O, and so does the node of a second value.
C26_SharedSpread ==
  /\ Returned_ /\ HasKey(fields, "obj") /\ Len(Get(fields, "obj")) = 2
  /\ \A n \in 1..2 : Get(fields, "obj")[n].name = "obj"
  /\ Get(fields, "obj")[1] # Get(fields, "obj")[2]
  /\ Len(Get(SubGrouping(Get(fields, "obj"), "Obj"), "a")) = 1

\* typeof tells neither "object" nor "function", or the value is null: the
\* source has no properties to read.
LacksObjectShape(source) ==
  source.t = "null" \/ typeofJS(source) \notin {"object", "function"}

\* C27: the default resolver never raises on account of the shape of the
\* source: from a source without object or callable shape, null and
\* undefined included, it returns undefined, so a root field of nullable
\* type resolved from such a root value is null and carries no error.
C27_DefaultResolverNeverRaises ==
  (Returned_ /\ response.hasData /\ type = "Query" /\ LacksObjectShape(rootValue)) =>
    \A i \in 1..Len(Keys(fields)) :
      LET key == Keys(fields)[i]
          fieldDef == getFieldDef(schema, type, Get(fields, key)[1].name)
      IN
      (fieldDef.defined /\ fieldDef.resolve = NoResolve
         /\ Get(fields, key)[1].arguments = "ok" /\ ~isNonNull(fieldDef.type)) =>
        /\ \A k \in 1..Len(response.errors) : response.errors[k].v # <<NameKey(key)>>
        /\ Get(response.data.v, key) = Null

\* What the code does: a source that is not null is resolved without an error
\* on account of its shape, and a null source fails every root field that
\* the default resolver resolves with the TypeError of the property access.
C27_OnlyNullSourceRaises ==
  (Returned_ /\ response.hasData /\ type = "Query" /\ LacksObjectShape(rootValue)) =>
    \A i \in 1..Len(Keys(fields)) :
      LET key == Keys(fields)[i]
          fieldDef == getFieldDef(schema, type, Get(fields, key)[1].name)
      IN
      (fieldDef.defined /\ fieldDef.resolve = NoResolve
         /\ Get(fields, key)[1].arguments = "ok" /\ ~isNonNull(fieldDef.type)) =>
        /\ Get(response.data.v, key) = Null
        /\ IF rootValue.t = "null"
           THEN \E k \in 1..Len(response.errors) :
                  response.errors[k]
                    = Val("error", 1,
                          "Cannot read property '" \o Get(fields, key)[1].name \o "' of null",
                          <<NameKey(key)>>)
           ELSE \A k \in 1..Len(response.errors) : response.errors[k].v # <<NameKey(key)>>

C27_NullSourceRun ==
  /\ Returned_ /\ rootValue = Null /\ type = "Query" /\ HasKey(fields, "hello")
  /\ response.hasErrors

\* graphql() has called execute.
ExecuteCalledByGraphql ==
  request.graphql /\ pc \in {"start", "context", "returned", "raised", "answered"}

\* The operation name as the value graphql() was given.
GivenOperationName == IF operationName = "" THEN Undefined ELSE Str(operationName)

\* C28: the variable values and the operation name given to graphql() are
\* the ones the execute it calls uses: the arguments line up with the
\* parameters of execute, so the given variable values are the ones coerced
\* and the given operation name is the one that selects the operation.
C28_GivenValuesReachExecute ==
  ExecuteCalledByGraphql =>
    LET parameters == execute_parameters(executeArguments) IN
    /\ parameters.variableValues = variableValues
    /\ parameters.operationName = GivenOperationName
    /\ exeContext # NoContext =>
         /\ operationName # "" => exeContext.operation.name = operationName
         /\ exeContext.variableValues
              = getVariableValues(schema, exeContext.operation.variableDefinitions,
                  IF ToBoolean(variableValues) THEN variableValues
                  ELSE Object("Object", <<>>)).val

\* What the call does: execute takes the context value for the variable
\* values and the variable values for the operation name; the operation
\* name is dropped.
C28_ArgumentsShifted ==
  ExecuteCalledByGraphql =>
    LET parameters == execute_parameters(executeArguments) IN
    /\ parameters.variableValues = contextValue
    /\ parameters.operationName = variableValues
    /\ (pc = "raised" /\ variableValues.t = "object") =>
         raised.s \in {"Unknown operation named \"[object]\".",
                       "GraphQL cannot execute a request containing a SchemaDefinition."}

\* Variable values were given for the one operation of the document, and
\* execute looked for an operation named after them.
C28_VariablesTakenForName ==
  /\ request.graphql /\ pc = "answered"
  /\ variableValues = Object("Object", <<Prop("v", Num(1))>>)
  /\ Len(document) = 1 /\ document[1].kind = "OperationDefinition"
  /\ result = Response(TRUE, <<Error("Unknown operation named \"[object]\".")>>,
                       FALSE, Undefined)

====
